---- MODULE Spec2Model ----
(***************************************************************************)
(* Model of the trending-topic engine of the eastbound repository:         *)
(*   scripts/monitor_russian_media.py  (extract_keywords,                  *)
(*       identify_trending_stories, deduplicate_articles)                  *)
(*   scripts/advanced_keywords.py      (tokenize, extract_tfidf_keywords,  *)
(*       extract_bigram_tfidf)                                             *)
(*   scripts/load_historical_context.py (temporal buckets and sampling)    *)
(*                                                                         *)
(* Text is a sequence of one-character strings, so that lower-casing,      *)
(* trimming, regular-expression tokenizing and substring tests are         *)
(* computed character by character as Python computes them.  A dict is a   *)
(* function whose DOMAIN is the set of keys that are present.              *)
(***************************************************************************)
EXTENDS Integers, Sequences, FiniteSets, TLC

VARIABLES
    \* deduplicate_articles
    articles,          \* the list passed to deduplicate_articles
    pos,               \* index of the article the for-loop is at
    seen_urls,         \* set of links of kept articles
    seen_titles,       \* list of normalised titles of kept articles
    unique_articles,   \* list of kept articles
    duplicates,        \* number of dropped articles
    kept,              \* history: input indices of the kept articles
    run,               \* 0 idle, 1 first call, 2 call on the first call's output
    first,             \* what the first call returned
    dpc,               \* "loop" | "returned" | "idle"
    raised,            \* "none", or the exception that ended the call
    \* keyword scoring and identify_trending_stories
    all_articles,      \* the article list passed to the scorer / aggregator
    TFIDF_AVAILABLE,   \* module flag: the advanced_keywords import succeeded
    call,              \* the call that was made, with its arguments
    returned,          \* the value that call returned
    tpc,               \* "ready" | "returned" | "raised" | "idle"
    \* create_historical_context
    research,          \* the *-briefing.json files of the research directory
    posts,             \* the _posts directory: whether it exists, its .md files
    now,               \* datetime.now(), in half days after today's midnight
    bucket,            \* index of the bucket the for-loop is at
    sampled_articles,  \* the local variable of that name, bound or not
    historical_context,\* the dict being built
    totals,            \* total_briefings, total_articles, total_digests
    hpc,               \* "loop" | "returned" | "raised" | "idle" | "call"
    \* a direct call of sample_articles
    sampling,          \* its arguments: articles, sample_rate, max_articles
    sampled,           \* the list it returned
    \* load_historical_context_weighted (generate_ai_draft.py)
    weighted_articles, \* the list being built
    \* main() of monitor_russian_media.py
    parallel,          \* args.parallel
    mpc,               \* position of the main thread
    task,              \* per feed: the state of its fetch_feed call
    fetched,           \* per feed: what its fetch_feed call returned
    collected,         \* history: the feeds in the order all_articles was extended
    dup_count,         \* the number deduplicate_articles returned
    identify_calls,    \* history: the arguments identify_trending_stories got
    \* a call of fetch_feed
    retries,           \* its argument
    attempt,           \* the loop variable
    fpc,               \* "try" | "sleep" | "returned" | "raised" | "idle"
    parses,            \* history: the outcome of each feedparser.parse attempt
    waits,             \* history: the arguments of time.sleep
    fetch_result       \* the list it returned

dedupVars == <<articles, pos, seen_urls, seen_titles, unique_articles,
               duplicates, kept, run, first, dpc>>

trendVars == <<all_articles, TFIDF_AVAILABLE, call, returned, tpc>>

histVars == <<research, posts, now, bucket, sampled_articles,
              historical_context, totals, hpc, sampling, sampled,
              weighted_articles>>

mainVars == <<parallel, mpc, task, fetched, collected, dup_count, identify_calls>>

fetchVars == <<retries, attempt, fpc, parses, waits, fetch_result>>

feedVars == <<mainVars, fetchVars>>

vars == <<dedupVars, raised, trendVars, histVars, feedVars>>

Unbound == [bound |-> FALSE]
Bound(v) == [bound |-> TRUE, value |-> v]

\* max_articles is None or an integer; both None and 0 are falsy
None == [none |-> TRUE, value |-> 0]
Cap(n) == [none |-> FALSE, value |-> n]
Truthy(max_articles) == ~max_articles.none /\ max_articles.value # 0

NoSampling == [articles |-> <<>>, sample_rate |-> 100, max_articles |-> None]

HistIdle ==
    /\ research = {} /\ posts = [exists |-> FALSE, files |-> {}]
    /\ now = 1 /\ bucket = 1
    /\ sampled_articles = Unbound
    /\ historical_context = [temporal_buckets |-> <<>>]
    /\ totals = [briefings |-> 0, articles |-> 0, digests |-> 0]
    /\ hpc = "idle"
    /\ sampling = NoSampling /\ sampled = <<>>
    /\ weighted_articles = <<>>


NoCall == [fn |-> "none"]

FeedIdle ==
    /\ parallel = FALSE /\ mpc = "idle" /\ task = <<>> /\ fetched = <<>>
    /\ collected = <<>> /\ dup_count = 0 /\ identify_calls = <<>>
    /\ retries = 0 /\ attempt = 0 /\ fpc = "idle" /\ parses = <<>>
    /\ waits = <<>> /\ fetch_result = <<>>

DedupIdle ==
    /\ articles = <<>> /\ pos = 1 /\ seen_urls = {} /\ seen_titles = <<>>
    /\ unique_articles = <<>> /\ duplicates = 0 /\ kept = <<>> /\ run = 0
    /\ first = [unique_articles |-> <<>>, duplicates |-> 0]
    /\ dpc = "idle"

TrendIdle ==
    /\ all_articles = <<>> /\ TFIDF_AVAILABLE = TRUE /\ call = NoCall
    /\ returned = <<>> /\ tpc = "idle"


(***************************************************************************)
(* Bounds                                                                  *)
(***************************************************************************)
MaxDedupLen == 3
MaxDocs == 3
MaxArticles == 4
NumSources == 3
MaxBriefings == 3
MaxBriefingArticles == 4
MaxWide == 15
MaxRetries == 3
FeedSize == 25

(***************************************************************************)
(* Python built-ins on strings and dicts                                   *)
(***************************************************************************)
Min(S) == CHOOSE x \in S : \A y \in S : x <= y
Max(S) == CHOOSE x \in S : \A y \in S : x >= y
Range(s) == {s[i] : i \in 1..Len(s)}

RECURSIVE Pow2(_)
Pow2(k) == IF k = 0 THEN 1 ELSE 2 * Pow2(k - 1)

UpperCase == <<"A","B","C","D","E","F","G","H","I","J","K","L","M",
               "N","O","P","Q","R","S","T","U","V","W","X","Y","Z">>
LowerCase == <<"a","b","c","d","e","f","g","h","i","j","k","l","m",
               "n","o","p","q","r","s","t","u","v","w","x","y","z">>
Digits == {"0","1","2","3","4","5","6","7","8","9"}
Whitespace == {" ", "\t", "\n", "\r"}

LowerChar(c) ==
    IF \E i \in 1..26 : UpperCase[i] = c
    THEN LowerCase[CHOOSE i \in 1..26 : UpperCase[i] = c]
    ELSE c

\* str.lower()
lower(s) == [i \in 1..Len(s) |-> LowerChar(s[i])]

\* str.strip()
strip(s) ==
    LET solid == {i \in 1..Len(s) : s[i] \notin Whitespace}
    IN  IF solid = {} THEN <<>> ELSE SubSeq(s, Min(solid), Max(solid))

\* dict.get(key, default)
DictGet(d, key, default) == IF key \in DOMAIN d THEN d[key] ELSE default

(***************************************************************************)
(* difflib.SequenceMatcher(None, a, b).ratio(), no junk (the autojunk      *)
(* heuristic needs 200 or more characters).                                *)
(***************************************************************************)
\* all matching blocks a[i..i+k-1] = b[j..j+k-1] inside a[alo..ahi], b[blo..bhi]
MatchingBlocksIn(a, b, alo, ahi, blo, bhi) ==
    {m \in (alo..ahi) \X (blo..bhi) \X (1..(ahi - alo + 1)) :
        /\ m[1] + m[3] - 1 <= ahi
        /\ m[2] + m[3] - 1 <= bhi
        /\ SubSeq(a, m[1], m[1] + m[3] - 1) = SubSeq(b, m[2], m[2] + m[3] - 1)}

\* the longest block; of those the one starting earliest in a, then in b
find_longest_match(a, b, alo, ahi, blo, bhi) ==
    LET blocks == MatchingBlocksIn(a, b, alo, ahi, blo, bhi)
    IN  IF blocks = {} THEN <<alo, blo, 0>>
        ELSE CHOOSE m \in blocks : \A n \in blocks :
                \/ m[3] > n[3]
                \/ m[3] = n[3] /\ m[1] < n[1]
                \/ m[3] = n[3] /\ m[1] = n[1] /\ m[2] <= n[2]

RECURSIVE MatchedChars(_, _, _, _, _, _)
\* sum of the sizes of get_matching_blocks(): recurse left and right of
\* the longest block
MatchedChars(a, b, alo, ahi, blo, bhi) ==
    IF alo > ahi \/ blo > bhi THEN 0
    ELSE LET m == find_longest_match(a, b, alo, ahi, blo, bhi)
         IN  IF m[3] = 0 THEN 0
             ELSE m[3]
                  + MatchedChars(a, b, alo, m[1] - 1, blo, m[2] - 1)
                  + MatchedChars(a, b, m[1] + m[3], ahi, m[2] + m[3], bhi)

\* ratio() = 2.0 * matches / (len(a) + len(b)), 1.0 when both are empty;
\* kept as the exact fraction num / den
SequenceMatcherRatio(a, b) ==
    IF Len(a) + Len(b) = 0 THEN [num |-> 1, den |-> 1]
    ELSE [num |-> 2 * MatchedChars(a, b, 1, Len(a), 1, Len(b)),
          den |-> Len(a) + Len(b)]

(***************************************************************************)
(* Regular expressions of tokenize and extract_keywords                    *)
(***************************************************************************)
WordChars == Range(UpperCase) \cup Range(LowerCase) \cup Digits \cup {"_"}
IsWordChar(c) == c \in WordChars

\* text[i..] starts with the characters of pat
StartsWithAt(text, i, pat) ==
    /\ i + Len(pat) - 1 <= Len(text)
    /\ SubSeq(text, i, i + Len(pat) - 1) = pat

\* last index of the run of characters satisfying the class that starts at i
RunEnd(text, i, class) ==
    Min({j \in i..Len(text) : j = Len(text) \/ text[j + 1] \notin class})

NonSpace(text) == Range(text) \ Whitespace

\* index of the last character of the match of the pattern at position i,
\* 0 when the pattern does not match there
MatchEnd(kind, text, i) ==
    CASE kind = "tag" ->        \* <[^>]+>
            IF /\ text[i] = "<"
               /\ i + 1 <= Len(text) /\ text[i + 1] # ">"
               /\ \E j \in (i + 2)..Len(text) : text[j] = ">"
            THEN Min({j \in (i + 2)..Len(text) : text[j] = ">"})
            ELSE 0
      [] kind = "http" ->       \* https?://\S+
            LET p == IF StartsWithAt(text, i, <<"h","t","t","p","s",":","/","/">>)
                     THEN i + 8
                     ELSE IF StartsWithAt(text, i, <<"h","t","t","p",":","/","/">>)
                     THEN i + 7
                     ELSE 0
            IN  IF p # 0 /\ p <= Len(text) /\ text[p] \notin Whitespace
                THEN RunEnd(text, p, NonSpace(text))
                ELSE 0
      [] kind = "www" ->        \* www\.\S+
            IF /\ StartsWithAt(text, i, <<"w","w","w",".">>)
               /\ i + 4 <= Len(text) /\ text[i + 4] \notin Whitespace
            THEN RunEnd(text, i + 4, NonSpace(text))
            ELSE 0
      [] kind = "entity" ->     \* &\w+;
            IF /\ text[i] = "&"
               /\ i + 1 <= Len(text) /\ IsWordChar(text[i + 1])
               /\ RunEnd(text, i + 1, WordChars) + 1 <= Len(text)
               /\ text[RunEnd(text, i + 1, WordChars) + 1] = ";"
            THEN RunEnd(text, i + 1, WordChars) + 1
            ELSE 0

RECURSIVE SubFrom(_, _, _)
\* re.sub(pattern, ' ', text), scanning from position i
SubFrom(kind, text, i) ==
    IF i > Len(text) THEN <<>>
    ELSE IF MatchEnd(kind, text, i) # 0
    THEN <<" ">> \o SubFrom(kind, text, MatchEnd(kind, text, i) + 1)
    ELSE <<text[i]>> \o SubFrom(kind, text, i + 1)

re_sub(kind, text) == SubFrom(kind, text, 1)

MinWordLen == 4

RECURSIVE FindWordsFrom(_, _)
\* re.findall(r'\b\w{4,}\b', text): the maximal runs of word characters
\* that are at least 4 long, left to right
FindWordsFrom(text, i) ==
    IF i > Len(text) THEN <<>>
    ELSE IF ~IsWordChar(text[i]) THEN FindWordsFrom(text, i + 1)
    ELSE LET j == RunEnd(text, i, WordChars)
         IN  (IF j - i + 1 >= MinWordLen THEN <<SubSeq(text, i, j)>> ELSE <<>>)
             \o FindWordsFrom(text, j + 1)

re_findall_words(text) == FindWordsFrom(text, 1)

\* re.match(r'^(19|20)\d{2}$', w)
IsYear(w) ==
    /\ Len(w) = 4
    /\ SubSeq(w, 1, 2) \in {<<"1","9">>, <<"2","0">>}
    /\ w[3] \in Digits /\ w[4] \in Digits

\* str.isdigit()
isdigit(w) == Len(w) > 0 /\ \A i \in 1..Len(w) : w[i] \in Digits

\* python's `term in text` on strings
Contains(text, term) ==
    \E i \in 0..(Len(text) - Len(term)) : SubSeq(text, i + 1, i + Len(term)) = term

\* filter a list, keeping order
RECURSIVE SelectSeqBy(_, _)
FilterWords(words, keep) == SelectSeqBy(words, keep)
SelectSeqBy(words, keep) ==
    IF words = <<>> THEN <<>>
    ELSE (IF Head(words) \in keep THEN <<Head(words)>> ELSE <<>>)
         \o SelectSeqBy(Tail(words), keep)

(***************************************************************************)
(* Stopword sets                                                           *)
(***************************************************************************)
\* extract_keywords (monitor_russian_media.py)
KeywordStopwords ==
    {<<"a","b","o","u","t">>, <<"a","c","c","o","r","d","i","n","g">>, 
     <<"a","f","t","e","r">>, <<"a","l","s","o">>, 
     <<"a","n","n","o","u","n","c","e","d">>, <<"b","e","e","n">>, 
     <<"b","o","t","h">>, <<"c","h","i","e","f">>, <<"c","o","u","l","d">>, 
     <<"c","o","u","n","t","r","y">>, <<"d","o","e","s">>, 
     <<"d","o","m","e","s","t","i","c">>, <<"e","a","c","h">>, 
     <<"e","c","o","n","o","m","i","c">>, <<"f","e","d","e","r","a","l">>, 
     <<"f","o","r","e","i","g","n">>, <<"f","r","o","m">>, 
     <<"f","u","l","l">>, <<"g","l","o","b","a","l">>, 
     <<"g","o","v","e","r","n","m","e","n","t">>, <<"h","a","v","e">>, 
     <<"h","e","a","d">>, <<"h","e","l","d">>, 
     <<"i","n","t","e","r","n","a","t","i","o","n","a","l">>, 
     <<"i","n","t","o">>, <<"j","u","s","t">>, 
     <<"k","r","e","m","l","i","n">>, <<"l","o","c","a","l">>, 
     <<"m","a","d","e">>, <<"m","a","k","e">>, <<"m","a","n","y">>, 
     <<"m","e","d","i","a">>, <<"m","e","e","t","i","n","g">>, 
     <<"m","i","l","i","t","a","r","y">>, <<"m","i","n","i","s","t","e","r">>, 
     <<"m","o","r","e">>, <<"m","o","s","c","o","w">>, <<"m","o","s","t">>, 
     <<"n","a","t","i","o","n","a","l">>, <<"n","e","w","s">>, 
     <<"o","f","f","i","c","i","a","l">>, 
     <<"o","f","f","i","c","i","a","l","s">>, <<"o","n","l","y">>, 
     <<"o","t","h","e","r">>, <<"o","v","e","r">>, <<"p","l","a","n">>, 
     <<"p","l","a","n","s">>, <<"p","o","l","i","t","i","c","a","l">>, 
     <<"p","r","e","s","i","d","e","n","t">>, 
     <<"r","e","g","i","o","n","a","l">>, <<"r","e","p","o","r","t">>, 
     <<"r","e","p","o","r","t","e","d">>, <<"r","e","p","o","r","t","s">>, 
     <<"r","u","s","s","i","a">>, <<"r","u","s","s","i","a","n">>, 
     <<"s","a","i","d">>, <<"s","a","y","s">>, <<"s","h","o","u","l","d">>, 
     <<"s","o","c","i","a","l">>, <<"s","o","m","e">>, 
     <<"s","t","a","t","e">>, <<"s","t","a","t","e","m","e","n","t">>, 
     <<"s","u","c","h">>, <<"t","a","l","k","s">>, <<"t","a","s","s">>, 
     <<"t","h","a","n">>, <<"t","h","a","t">>, <<"t","h","e","i","r">>, 
     <<"t","h","e","m">>, <<"t","h","e","n">>, <<"t","h","e","r","e">>, 
     <<"t","h","e","s","e">>, <<"t","h","i","s">>, <<"t","h","o","s","e">>, 
     <<"t","o","l","d">>, <<"v","e","r","y">>, <<"w","e","r","e">>, 
     <<"w","h","a","t">>, <<"w","h","e","n">>, <<"w","h","e","r","e">>, 
     <<"w","h","i","c","h">>, <<"w","i","l","l">>, <<"w","i","t","h">>, 
     <<"w","o","r","l","d">>, <<"w","o","u","l","d">>, <<"y","e","a","r">>, 
     <<"y","e","a","r","s">>}

\* extract_tfidf_keywords (advanced_keywords.py)
TfidfStopwords ==
    {<<"a","b","o","u","t">>, <<"a","c","c","o","r","d","i","n","g">>, 
     <<"a","f","t","e","r">>, <<"a","l","s","o">>, 
     <<"a","n","n","o","u","n","c","e","d">>, <<"a","r","t","i","c","l","e">>, 
     <<"a","r","t","i","c","l","e","s">>, <<"b","e","e","n">>, 
     <<"b","o","t","h">>, <<"b","r","e","a","k","i","n","g">>, 
     <<"c","h","i","e","f">>, <<"c","l","i","c","k">>, 
     <<"c","o","n","t","i","n","u","e">>, <<"c","o","u","l","d">>, 
     <<"c","o","u","n","t","r","y">>, <<"d","e","t","a","i","l","s">>, 
     <<"d","o","e","s">>, <<"d","o","m","e","s","t","i","c">>, 
     <<"e","a","c","h">>, <<"e","c","o","n","o","m","i","c">>, 
     <<"f","e","d","e","r","a","l">>, <<"f","o","r","e","i","g","n">>, 
     <<"f","r","o","m">>, <<"f","u","l","l">>, <<"g","l","o","b","a","l">>, 
     <<"g","o","v","e","r","n","m","e","n","t">>, <<"h","a","v","e">>, 
     <<"h","e","a","d">>, <<"h","e","l","d">>, <<"h","e","r","e">>, 
     <<"h","t","t","p">>, <<"h","t","t","p","s">>, <<"i","m","a","g","e">>, 
     <<"i","n","f","o","r","m","a","t","i","o","n">>, 
     <<"i","n","t","e","r","n","a","t","i","o","n","a","l">>, 
     <<"i","n","t","o">>, <<"j","u","s","t">>, 
     <<"k","r","e","m","l","i","n">>, <<"l","a","t","e","s","t">>, 
     <<"l","i","n","k">>, <<"l","o","c","a","l">>, <<"m","a","d","e">>, 
     <<"m","a","k","e">>, <<"m","a","n","y">>, <<"m","e","d","i","a">>, 
     <<"m","e","e","t","i","n","g">>, <<"m","i","l","i","t","a","r","y">>, 
     <<"m","i","n","i","s","t","e","r">>, <<"m","o","r","e">>, 
     <<"m","o","s","c","o","w">>, <<"m","o","s","t">>, 
     <<"n","a","t","i","o","n","a","l">>, <<"n","e","w","s">>, 
     <<"o","f","f","i","c","i","a","l">>, 
     <<"o","f","f","i","c","i","a","l","s">>, <<"o","n","l","y">>, 
     <<"o","t","h","e","r">>, <<"o","v","e","r">>, <<"p","a","r","t">>, 
     <<"p","h","o","t","o">>, <<"p","l","a","n">>, <<"p","l","a","n","s">>, 
     <<"p","o","l","i","t","i","c","a","l">>, 
     <<"p","r","e","s","i","d","e","n","t">>, <<"p","r","e","v","i","e","w">>, 
     <<"r","e","a","d">>, <<"r","e","a","d","i","n","g">>, 
     <<"r","e","g","i","o","n","a","l">>, <<"r","e","p","o","r","t">>, 
     <<"r","e","p","o","r","t","e","d">>, <<"r","e","p","o","r","t","s">>, 
     <<"r","u","s","s","i","a">>, <<"r","u","s","s","i","a","n">>, 
     <<"s","a","i","d">>, <<"s","a","y","s">>, <<"s","h","o","u","l","d">>, 
     <<"s","o","c","i","a","l">>, <<"s","o","m","e">>, 
     <<"s","o","u","r","c","e">>, <<"s","o","u","r","c","e","s">>, 
     <<"s","t","a","t","e">>, <<"s","t","a","t","e","m","e","n","t">>, 
     <<"s","t","o","r","i","e","s">>, <<"s","t","o","r","y">>, 
     <<"s","u","c","h">>, <<"t","a","l","k","s">>, <<"t","a","s","s">>, 
     <<"t","h","a","n">>, <<"t","h","a","t">>, <<"t","h","e","i","r">>, 
     <<"t","h","e","m">>, <<"t","h","e","n">>, <<"t","h","e","r","e">>, 
     <<"t","h","e","s","e">>, <<"t","h","i","s">>, <<"t","h","o","s","e">>, 
     <<"t","o","l","d">>, <<"u","p","d","a","t","e">>, 
     <<"u","p","d","a","t","e","s">>, <<"v","e","r","y">>, 
     <<"v","i","d","e","o">>, <<"v","i","e","w">>, <<"w","a","t","c","h">>, 
     <<"w","e","r","e">>, <<"w","h","a","t">>, <<"w","h","e","n">>, 
     <<"w","h","e","r","e">>, <<"w","h","i","c","h">>, <<"w","i","l","l">>, 
     <<"w","i","t","h">>, <<"w","o","r","l","d">>, <<"w","o","u","l","d">>, 
     <<"y","e","a","r">>, <<"y","e","a","r","s">>}

\* extract_bigram_tfidf (advanced_keywords.py)
BigramStopwords ==
    {<<"a","b","o","u","t">>, <<"a","f","t","e","r">>, 
     <<"a","r","t","i","c","l","e">>, <<"a","r","t","i","c","l","e","s">>, 
     <<"b","e","e","n">>, <<"c","l","i","c","k">>, 
     <<"c","o","n","t","i","n","u","e">>, <<"f","r","o","m">>, 
     <<"f","u","l","l">>, <<"h","a","v","e">>, <<"h","e","r","e">>, 
     <<"h","t","t","p">>, <<"h","t","t","p","s">>, 
     <<"k","r","e","m","l","i","n">>, <<"l","i","n","k">>, 
     <<"m","e","d","i","a">>, <<"m","i","l","i","t","a","r","y">>, 
     <<"m","o","r","e">>, <<"m","o","s","c","o","w">>, 
     <<"o","f","f","i","c","i","a","l">>, 
     <<"p","o","l","i","t","i","c","a","l">>, <<"p","r","e","v","i","e","w">>, 
     <<"r","e","a","d">>, <<"r","e","p","o","r","t">>, 
     <<"r","e","p","o","r","t","e","d">>, <<"r","u","s","s","i","a">>, 
     <<"r","u","s","s","i","a","n">>, <<"s","a","i","d">>, 
     <<"s","a","y","s">>, <<"s","t","o","r","i","e","s">>, 
     <<"s","t","o","r","y">>, <<"t","a","s","s">>, <<"t","h","a","t">>, 
     <<"t","h","e","i","r">>, <<"t","h","e","r","e">>, <<"t","h","i","s">>, 
     <<"v","i","e","w">>, <<"w","a","t","c","h">>, <<"w","h","e","n">>, 
     <<"w","h","e","r","e">>, <<"w","h","i","c","h">>, <<"w","i","l","l">>, 
     <<"w","i","t","h">>}

(***************************************************************************)
(* tokenize (advanced_keywords.py) and extract_keywords                    *)
(***************************************************************************)
TokenizeText(text) ==
    re_findall_words(
        re_sub("entity", re_sub("www", re_sub("http", re_sub("tag", lower(text))))))

\* words that are neither stopwords nor years nor numbers, in order
ContentWords(words, stopwords) ==
    FilterWords(words, {w \in Range(words) :
                           w \notin stopwords /\ ~IsYear(w) /\ ~isdigit(w)})

RECURSIVE BigramsFrom(_, _, _)
\* the bigram loop: for i in range(len(words) - 1)
BigramsFrom(words, i, stopwords) ==
    IF i > Len(words) - 1 THEN <<>>
    ELSE LET word1 == words[i]
             word2 == words[i + 1]
         IN  (IF \/ word1 \in stopwords \/ word2 \in stopwords
                 \/ IsYear(word1) \/ IsYear(word2)
                 \/ isdigit(word1) \/ isdigit(word2)
              THEN <<>>
              ELSE <<word1 \o <<" ">> \o word2>>)
             \o BigramsFrom(words, i + 1, stopwords)

\* a plausible slip: keywords + bigrams
ExtractKeywordsUnigramsFirst(text) ==
    LET words == re_findall_words(lower(text))
    IN  ContentWords(words, KeywordStopwords)
        \o BigramsFrom(words, 1, KeywordStopwords)

\* extract_keywords(text): bigrams + keywords
ExtractKeywordsText(text) ==
    LET words == re_findall_words(lower(text))
    IN  BigramsFrom(words, 1, KeywordStopwords)
        \o ContentWords(words, KeywordStopwords)

(***************************************************************************)
(* Inputs of the scorer and of identify_trending_stories                   *)
(***************************************************************************)
SourceNames == <<"TASS", "RIA Novosti", "Interfax", "RT", "Kommersant">>

TextSanctionsOn     == <<"S","a","n","c","t","i","o","n","s"," ","o","n"," ","I","r","a","n">>
TextRussiaSanctions == <<"R","u","s","s","i","a"," ","s","a","n","c","t","i","o","n","s"," ","I","r","a","n">>
TextSanctionsHtml   == <<"<","p",">","S","a","n","c","t","i","o","n","s","<","/","p",">">>
TextTariffs         == <<"T","a","r","i","f","f","s"," ","h","i","t"," ","e","x","p","o","r","t","s">>

TextIranSanctions   == <<"I","r","a","n"," ","s","a","n","c","t","i","o","n","s">>
TextBankSanctions   == <<"B","a","n","k"," ","s","a","n","c","t","i","o","n","s">>
TextTradeSanctions  == <<"T","r","a","d","e"," ","s","a","n","c","t","i","o","n","s">>
TextGrainSanctions  == <<"G","r","a","i","n"," ","s","a","n","c","t","i","o","n","s">>
TextRateSanctions   == <<"R","a","t","e"," ","s","a","n","c","t","i","o","n","s">>

\* title and summary of an article; the 'summary' key may be absent
Bodies ==
    {[title |-> TextSanctionsOn, summary |-> <<>>],
     [title |-> TextRussiaSanctions, summary |-> TextSanctionsHtml],
     [title |-> TextTariffs, summary |-> <<>>],
     [title |-> TextSanctionsOn]}

\* f"{article.get('title', '')} {article.get('summary', '')}"
ArticleText(article) ==
    DictGet(article, "title", <<>>) \o <<" ">> \o DictGet(article, "summary", <<>>)

\* titles of a feed collection large enough for the top-10 cuts: all share
\* a word, no summary
WideTexts == <<TextIranSanctions, TextBankSanctions, TextTradeSanctions,
               TextGrainSanctions, TextRateSanctions>>

InputTexts ==
    {ArticleText(b) : b \in Bodies}
    \cup {ArticleText([title |-> WideTexts[k], summary |-> <<>>]) : k \in 1..Len(WideTexts)}

\* tokenize and extract_keywords of every text of the input space, computed once
TokenCache ==
    {[text |-> t, words |-> TokenizeText(t), keywords |-> ExtractKeywordsText(t),
      lowered |-> lower(t),
      unigrams |-> ContentWords(TokenizeText(t), TfidfStopwords),
      bigrams |-> BigramsFrom(TokenizeText(t), 1, BigramStopwords)] : t \in InputTexts}

Cached(text) == CHOOSE e \in TokenCache : e.text = text
IsCached(text) == \E e \in TokenCache : e.text = text

\* tokenize(text)
tokenize(text) ==
    IF IsCached(text) THEN Cached(text).words ELSE TokenizeText(text)

\* extract_keywords(text)
extract_keywords(text) ==
    IF IsCached(text) THEN Cached(text).keywords ELSE ExtractKeywordsText(text)

\* text.lower() of an article text
LowerText(text) ==
    IF IsCached(text) THEN Cached(text).lowered ELSE lower(text)

\* the terms the scorers can return for the texts of the input space, and
\* for every text those that its lowered form contains, computed once
TermCache == UNION {Range(e.unigrams) \cup Range(e.bigrams) : e \in TokenCache}

ContainsCache ==
    {[text |-> e.text, terms |-> {t \in TermCache : Contains(e.lowered, t)}] :
        e \in TokenCache}

\* `term in text` for text = the lowered article text
TermInText(term, text) ==
    IF IsCached(text) /\ term \in TermCache
    THEN term \in (CHOOSE c \in ContainsCache : c.text = text).terms
    ELSE Contains(LowerText(text), term)

(***************************************************************************)
(* Score arithmetic.  A score is an integer number of units of             *)
(* 1 / (100000 * ScoreDen): term frequencies count / len(doc) are exact    *)
(* multiples of 1 / ScoreDen, and log is taken from a table of 1e5 * ln.   *)
(***************************************************************************)
RECURSIVE GCD(_, _)
GCD(a, b) == IF b = 0 THEN a ELSE GCD(b, a % b)
LCM(a, b) == (a * b) \div GCD(a, b)

RECURSIVE LCMOf(_)
LCMOf(S) == IF S = {} THEN 1
            ELSE LET x == CHOOSE x \in S : TRUE IN LCM(x, LCMOf(S \ {x}))

\* 100000 * ln(n) for n = 1..24, the sum of the entries of the prime factors
LnTable == <<0, 69315, 109861, 138630, 160944, 179176, 194591, 207945,
             219722, 230259, 239790, 248491, 256495, 263906, 270805,
             277260, 283321, 289037, 294444, 299574, 304452, 309105,
             313549, 317806>>

\* a plausible slip: math.log(df / num_docs)
LnScaledInverted(n, d) == LET g == GCD(n, d) IN LnTable[d \div g] - LnTable[n \div g]

\* 100000 * math.log(n / d), equal for equal quotients
LnScaled(n, d) == LET g == GCD(n, d) IN LnTable[n \div g] - LnTable[d \div g]

\* the lengths len(doc) that occur as denominators
DocLengths == UNION {{Len(e.unigrams), Len(e.bigrams)} : e \in TokenCache}

ScoreDen == LCMOf(DocLengths \ {0})

\* round(num / den, 4) in units of 0.0001
Round4(num, den) ==
    LET q  == num \div den
        r1 == num % den
        d1 == (r1 * 100) \div den
        r2 == (r1 * 100) % den
        d2 == (r2 * 200 + den) \div (2 * den)
    IN  q * 10000 + d1 * 100 + d2

(***************************************************************************)
(* sorted(items, key=..., reverse=True): stable, descending                *)
(***************************************************************************)
RECURSIVE InsertDescBeforeTies(_, _, _)
\* a plausible slip: an unstable sort that puts x before its equals
InsertDescBeforeTies(sorted, x, key) ==
    IF sorted = <<>> THEN <<x>>
    ELSE IF Head(sorted)[key] > x[key]
    THEN <<Head(sorted)>> \o InsertDescBeforeTies(Tail(sorted), x, key)
    ELSE <<x>> \o sorted

RECURSIVE InsertDesc(_, _, _)
\* put x after every element whose key is >= the key of x
InsertDesc(sorted, x, key) ==
    IF sorted = <<>> THEN <<x>>
    ELSE IF Head(sorted)[key] >= x[key]
    THEN <<Head(sorted)>> \o InsertDesc(Tail(sorted), x, key)
    ELSE <<x>> \o sorted

\* a plausible slip: the sort is forgotten and the items stay in dict order
SortedDescUnsorted(items, key) == items

RECURSIVE SortedDescUpTo(_, _, _)
SortedDescUpTo(items, n, key) ==
    IF n = 0 THEN <<>>
    ELSE InsertDesc(SortedDescUpTo(items, n - 1, key), items[n], key)

SortedDesc(items, key) == SortedDescUpTo(items, Len(items), key)

\* list[:n]
Prefix(list, n) == SubSeq(list, 1, IF Len(list) < n THEN Len(list) ELSE n)

\* the distinct elements of a list in order of first occurrence: the key
\* order of a dict or Counter filled while scanning the list
DistinctInOrder(list) ==
    LET firsts == {i \in 1..Len(list) : \A j \in 1..(i - 1) : list[j] # list[i]}
    IN  [k \in 1..Cardinality(firsts) |->
            list[CHOOSE i \in firsts : Cardinality({j \in firsts : j <= i}) = k]]

RECURSIVE Flatten(_)
Flatten(lists) ==
    IF lists = <<>> THEN <<>> ELSE Head(lists) \o Flatten(Tail(lists))

CountIn(doc, term) == Cardinality({i \in 1..Len(doc) : doc[i] = term})

(***************************************************************************)
(* extract_tfidf_keywords and extract_bigram_tfidf (advanced_keywords.py)  *)
(***************************************************************************)
\* the document collection built from the articles
\* the filtered words of one document (lines 97-101)
UnigramDocument(text) ==
    IF IsCached(text) THEN Cached(text).unigrams
    ELSE ContentWords(tokenize(text), TfidfStopwords)

\* the bigrams of one document (lines 159-173)
BigramDocument(text) ==
    IF IsCached(text) THEN Cached(text).bigrams
    ELSE BigramsFrom(tokenize(text), 1, BigramStopwords)

UnigramDocuments(arts) ==
    [i \in 1..Len(arts) |-> UnigramDocument(ArticleText(arts[i]))]

BigramDocuments(arts) ==
    [i \in 1..Len(arts) |-> BigramDocument(ArticleText(arts[i]))]

EmptyDict == [w \in {} |-> 0]

RECURSIVE DocFreqByOccurrence(_, _)
\* a plausible slip: `for word in doc` instead of `for word in set(doc)`
DocFreqByOccurrence(documents, n) ==
    IF n = 0 THEN EmptyDict
    ELSE LET prev == DocFreqByOccurrence(documents, n - 1)
             doc  == documents[n]
         IN  [w \in DOMAIN prev \cup Range(doc) |->
                 (IF w \in DOMAIN prev THEN prev[w] ELSE 0) + CountIn(doc, w)]

RECURSIVE DocFreq(_, _)
\* df after `for doc in documents: for word in set(doc): df[word] += 1`
\* has run over the first n documents
DocFreq(documents, n) ==
    IF n = 0 THEN EmptyDict
    ELSE LET prev == DocFreq(documents, n - 1)
             words == Range(documents[n])
         IN  [w \in DOMAIN prev \cup words |->
                 (IF w \in DOMAIN prev THEN prev[w] ELSE 0)
                 + (IF w \in words THEN 1 ELSE 0)]

\* {word: count for word, count in df.items() if count >= min_df}
FilterDf(df, min_df) ==
    [w \in {x \in DOMAIN df : df[x] >= min_df} |-> df[w]]

\* the TF-IDF accumulation over all documents, for one term
TfidfScore(documents, df, term) ==
    LET num_docs == Len(documents)
        contribution(d) ==
            IF Len(documents[d]) > 0
            THEN CountIn(documents[d], term) * (ScoreDen \div Len(documents[d]))
                 * LnScaled(num_docs, df[term])
            ELSE 0
        RECURSIVE SumTo(_)
        SumTo(d) == IF d = 0 THEN 0 ELSE SumTo(d - 1) + contribution(d)
    IN  SumTo(num_docs)

\* the common tail of both scorers, from `if not documents` on
RankDocuments(documents, top_n, min_df) ==
    IF documents = <<>> THEN <<>>
    ELSE LET df == FilterDf(DocFreq(documents, Len(documents)), min_df)
         IN  IF DOMAIN df = {} THEN <<>>
             ELSE LET order == SelectSeqBy(DistinctInOrder(Flatten(documents)), DOMAIN df)
                      items == [k \in 1..Len(order) |->
                                  [term |-> order[k],
                                   score |-> TfidfScore(documents, df, order[k])]]
                  IN  Prefix(SortedDesc(items, "score"), top_n)

extract_tfidf_keywords(arts, top_n, min_df) ==
    RankDocuments(UnigramDocuments(arts), top_n, min_df)

extract_bigram_tfidf(arts, top_n, min_df) ==
    RankDocuments(BigramDocuments(arts), top_n, min_df)

(***************************************************************************)
(* identify_trending_stories (monitor_russian_media.py)                    *)
(***************************************************************************)
MinSources == 3
TopTopics == 10
TopArticles == 10
KeywordTopN == 50
BigramTopN == 30
TrendMinDf == 2

SourcesOf(arts) == {arts[i].source : i \in 1..Len(arts)}

\* a plausible slip: two sources are taken to be enough
CorroboratedByTwo(sources) == Cardinality(sources) >= 2

\* if len(sources) >= 3
Corroborated(sources) == Cardinality(sources) >= MinSources

\* article['title'] + ' ' + article['summary'] raises KeyError without the keys
HasTextKeys(article) == {"title", "summary"} \subseteq DOMAIN article

Ok(value)  == [raised |-> "none", value |-> value]
Raise(exc) == [raised |-> exc, value |-> <<>>]

\* the articles of arts, in order, that satisfy the test
RECURSIVE ArticlesWhere(_, _, _)
ArticlesWhere(arts, n, hit) ==
    IF n = 0 THEN <<>>
    ELSE ArticlesWhere(arts, n - 1, hit) \o (IF n \in hit THEN <<arts[n]>> ELSE <<>>)

\* a plausible slip: the maximum of the unigram results alone, which come
\* first and are sorted
MaxScoreOfFirst(scored) == IF scored # <<>> THEN scored[1].score ELSE 1

\* max_score = max(score for _, score in ...) if (...) else 1
MaxScore(scored) ==
    IF scored # <<>> THEN Max({scored[k].score : k \in 1..Len(scored)}) ELSE 1

\* the keys of the dict tfidf_terms, in insertion order
TfidfTerms(scored) == DistinctInOrder([k \in 1..Len(scored) |-> scored[k].term])

\* tfidf_terms[term] before the division: the last assignment wins
tfidf_terms(scored, term) ==
    scored[Max({k \in 1..Len(scored) : scored[k].term = term})].score

\* the articles whose lowered text contains the term (`if term in text`)
TfidfHits(arts, term) ==
    {i \in 1..Len(arts) : TermInText(term, ArticleText(arts[i]))}

\* keyword_counts[keyword] of the TF-IDF branch
keyword_counts(arts, keyword) == ArticlesWhere(arts, Len(arts), TfidfHits(arts, keyword))

\* key order of keyword_counts: by article, then by term
KeywordCountKeys(arts, terms) ==
    DistinctInOrder(Flatten(
        [i \in 1..Len(arts) |->
            SelectSeqBy(terms, {t \in Range(terms) : i \in TfidfHits(arts, t)})]))

\* trending[keyword] of the TF-IDF branch
TfidfTopic(found, raw, max_score, keyword) ==
    [keyword |-> keyword,
     source_count |-> Cardinality(SourcesOf(found)),
     tfidf_score |-> Round4(raw, max_score),
     combined_score |-> Round4(raw * Cardinality(SourcesOf(found)), max_score),
     articles |-> Prefix(found, TopArticles)]

\* a plausible slip: a term of score 0 is not made a topic
TfidfTrendingScored(arts, scored, max_score, keys) ==
    LET trendingKeys == SelectSeqBy(keys,
                            {k \in Range(keys) :
                                /\ Corroborated(SourcesOf(keyword_counts(arts, k)))
                                /\ tfidf_terms(scored, k) > 0})
    IN  [k \in 1..Len(trendingKeys) |->
            TfidfTopic(keyword_counts(arts, trendingKeys[k]),
                       tfidf_terms(scored, trendingKeys[k]), max_score, trendingKeys[k])]

\* the dict `trending` of the TF-IDF branch, as the list of its values
TfidfTrending(arts, scored, max_score, keys) ==
    LET trendingKeys == SelectSeqBy(keys,
                            {k \in Range(keys) :
                                Corroborated(SourcesOf(keyword_counts(arts, k)))})
    IN  [k \in 1..Len(trendingKeys) |->
            TfidfTopic(keyword_counts(arts, trendingKeys[k]),
                       tfidf_terms(scored, trendingKeys[k]), max_score, trendingKeys[k])]

\* the TF-IDF branch from the division on (lines 269-304) and the return
TfidfBranch(arts, scored, max_score) ==
    IF scored # <<>> /\ max_score = 0
    THEN Raise("ZeroDivisionError")           \* score / max_score
    ELSE IF \E i \in 1..Len(arts) : ~HasTextKeys(arts[i])
    THEN Raise("KeyError")                    \* article['summary']
    ELSE Ok(Prefix(SortedDesc(TfidfTrending(arts, scored, max_score,
                                            KeywordCountKeys(arts, TfidfTerms(scored))),
                              "combined_score"),
                   TopTopics))

\* tfidf_keywords + tfidf_bigrams
AllKeywords(arts) ==
    extract_tfidf_keywords(arts, KeywordTopN, TrendMinDf)
        \o extract_bigram_tfidf(arts, BigramTopN, TrendMinDf)

\* the TF-IDF branch (lines 257-304) followed by the return (line 332)
ScoredBranch(arts, scored) == TfidfBranch(arts, scored, MaxScore(scored))

IdentifyTfidf(arts) == ScoredBranch(arts, AllKeywords(arts))

\* the keyword set of every article in fallback mode
KeywordSet(article) == Range(extract_keywords(ArticleText(article)))

FallbackKeys(arts) == UNION {KeywordSet(arts[i]) : i \in 1..Len(arts)}
FallbackHits(arts, keyword) == {i \in 1..Len(arts) : keyword \in KeywordSet(arts[i])}
FallbackFound(arts, keyword) == ArticlesWhere(arts, Len(arts), FallbackHits(arts, keyword))

RECURSIVE OrderingsOf(_)
OrderingsOf(S) ==
    IF S = {} THEN {<<>>}
    ELSE UNION {{<<x>> \o p : p \in OrderingsOf(S \ {x})} : x \in S}

RECURSIVE KeyOrdersUpTo(_, _)
\* `for keyword in set(keywords)` visits the keywords of an article in an
\* unspecified order, so the keys that an article is the first to insert
\* enter keyword_counts in any order.  Only the keys that pass the source
\* test reach the result; these are their possible insertion orders.
KeyOrdersUpTo(arts, n) ==
    IF n = 0 THEN {<<>>}
    ELSE LET new == {k \in KeywordSet(arts[n]) :
                        /\ Min(FallbackHits(arts, k)) = n
                        /\ Corroborated(SourcesOf(FallbackFound(arts, k)))}
         IN  {front \o p : front \in KeyOrdersUpTo(arts, n - 1), p \in OrderingsOf(new)}

KeyOrders(arts) == KeyOrdersUpTo(arts, Len(arts))

\* article['title'] + ' ' + article['summary'] (line 313) raises in the first
\* loop, before `trending` has any key
FallbackOrders(arts) ==
    IF \E i \in 1..Len(arts) : ~HasTextKeys(arts[i]) THEN {<<>>} ELSE KeyOrders(arts)

\* trending[keyword] of the fallback branch, as the set of its values
FallbackTopics(arts) ==
    {[keyword |-> keyword,
      source_count |-> Cardinality(SourcesOf(FallbackFound(arts, keyword))),
      articles |-> Prefix(FallbackFound(arts, keyword), TopArticles)] :
        keyword \in {k \in FallbackKeys(arts) :
                        Corroborated(SourcesOf(FallbackFound(arts, k)))}}

\* a plausible slip: `return sorted_trending` without the [:10]
IdentifyFallbackUncut(arts, trendingKeys, topics) ==
    IF \E i \in 1..Len(arts) : ~HasTextKeys(arts[i])
    THEN Raise("KeyError")
    ELSE LET trending == [k \in 1..Len(trendingKeys) |->
                             CHOOSE t \in topics : t.keyword = trendingKeys[k]]
         IN  Ok(SortedDesc(trending, "source_count"))

\* the fallback branch (lines 306-330) followed by the return (line 332);
\* trendingKeys is the key order of the dict `trending`, topics its values.
\* A key is never in `trending` before its own turn, so the test of line
\* 322 is true.
IdentifyFallback(arts, trendingKeys, topics) ==
    IF \E i \in 1..Len(arts) : ~HasTextKeys(arts[i])
    THEN Raise("KeyError")
    ELSE LET trending == [k \in 1..Len(trendingKeys) |->
                             CHOOSE t \in topics : t.keyword = trendingKeys[k]]
         IN  Ok(Prefix(SortedDesc(trending, "source_count"), TopTopics))

(***************************************************************************)
(* Calls of the scorers and of identify_trending_stories                   *)
(***************************************************************************)
MinDfArgs == {-1, 1, 2, 3}
TopNArgs  == {1, 50}

\* source indices in order of first appearance: sources are only compared
\* for equality, so the names are assigned in the order they first occur
CanonicalSources(n) ==
    {f \in [1..n -> 1..NumSources] :
        \A i \in 1..n : f[i] <= 1 + Max({0} \cup {f[j] : j \in 1..(i - 1)})}

\* the article list with sources f[1..n] and title/summary b[1..n]
ArticleList(n, f, b) == [i \in 1..n |-> [source |-> SourceNames[f[i]]] @@ b[i]]

TrendInit ==
    /\ \E n \in 0..MaxArticles :
          \E f \in CanonicalSources(n), b \in [1..n -> Bodies] :
             all_articles = ArticleList(n, f, b)
    /\ TFIDF_AVAILABLE \in BOOLEAN
    /\ call = NoCall
    /\ returned = <<>>
    /\ tpc = "ready"
    /\ raised = "none"
    /\ DedupIdle
    /\ HistIdle
    /\ FeedIdle

ScorerInit ==
    /\ \E n \in 0..MaxDocs :
          \E b \in [1..n -> Bodies] :
             all_articles = ArticleList(n, [i \in 1..n |-> 1], b)
    /\ TFIDF_AVAILABLE = TRUE
    /\ call = NoCall
    /\ returned = <<>>
    /\ tpc = "ready"
    /\ raised = "none"
    /\ DedupIdle
    /\ HistIdle
    /\ FeedIdle

\* n articles from m sources: the titles of WideTexts[1..t] in turn, each
\* round of t articles from the next source
WideArticles(n, t, m) ==
    [i \in 1..n |->
        [source |-> SourceNames[(((i - 1) \div t) % m) + 1],
         title |-> WideTexts[((i - 1) % t) + 1],
         summary |-> <<>>]]

TrendWideInit ==
    /\ \E n \in 0..MaxWide, t \in 1..Len(WideTexts), m \in 1..NumSources :
          all_articles = WideArticles(n, t, m)
    /\ TFIDF_AVAILABLE \in BOOLEAN
    /\ call = NoCall
    /\ returned = <<>>
    /\ tpc = "ready"
    /\ raised = "none"
    /\ DedupIdle
    /\ HistIdle
    /\ FeedIdle

Finish(c, outcome) ==
    /\ call' = c
    /\ returned' = outcome.value
    /\ raised' = outcome.raised
    /\ tpc' = IF outcome.raised = "none" THEN "returned" ELSE "raised"
    /\ UNCHANGED <<all_articles, TFIDF_AVAILABLE, dedupVars, histVars, feedVars>>

CallExtractTfidfKeywords ==
    /\ tpc = "ready"
    /\ \E top_n \in TopNArgs, min_df \in MinDfArgs :
          Finish([fn |-> "extract_tfidf_keywords", top_n |-> top_n, min_df |-> min_df],
                 Ok(extract_tfidf_keywords(all_articles, top_n, min_df)))

CallExtractBigramTfidf ==
    /\ tpc = "ready"
    /\ \E top_n \in TopNArgs, min_df \in MinDfArgs :
          Finish([fn |-> "extract_bigram_tfidf", top_n |-> top_n, min_df |-> min_df],
                 Ok(extract_bigram_tfidf(all_articles, top_n, min_df)))

\* identify_trending_stories(all_articles, use_tfidf) taking the TF-IDF branch
CallIdentifyTfidf ==
    /\ tpc = "ready"
    /\ \E use_tfidf \in BOOLEAN :
          /\ use_tfidf /\ TFIDF_AVAILABLE
          /\ Finish([fn |-> "identify_trending_stories", use_tfidf |-> use_tfidf,
                     mode |-> "tfidf"],
                    IdentifyTfidf(all_articles))

\* identify_trending_stories(all_articles, use_tfidf) taking the fallback branch
CallIdentifyFallback ==
    /\ tpc = "ready"
    /\ LET topics == FallbackTopics(all_articles)
       IN  \E trendingKeys \in FallbackOrders(all_articles) :
              LET outcome == IdentifyFallback(all_articles, trendingKeys, topics)
              IN  \E use_tfidf \in BOOLEAN :
                     /\ ~(use_tfidf /\ TFIDF_AVAILABLE)
                     /\ Finish([fn |-> "identify_trending_stories",
                                use_tfidf |-> use_tfidf, mode |-> "fallback"],
                               outcome)

ScorerNext == CallExtractTfidfKeywords \/ CallExtractBigramTfidf
TrendNext  == CallIdentifyTfidf \/ CallIdentifyFallback

SpecScorer == ScorerInit /\ [][ScorerNext]_vars
SpecTrend  == TrendInit /\ [][TrendNext]_vars
SpecTrendWide == TrendWideInit /\ [][TrendNext]_vars

(***************************************************************************)
(* Direct calls of extract_keywords on texts of a few words                *)
(***************************************************************************)
MaxKeywordWords == 3

\* two content words, a short word, two stopwords (one capitalised), a year
\* and a number
Vocabulary ==
    {<<"I","r","a","n">>, <<"s","a","n","c","t","i","o","n","s">>, <<"o","n">>,
     <<"w","i","t","h">>, <<"T","a","l","k","s">>, <<"2","0","2","4">>,
     <<"1","2","3","4","5">>}

RECURSIVE JoinWords(_)
\* ' '.join(words)
JoinWords(words) ==
    IF words = <<>> THEN <<>>
    ELSE IF Len(words) = 1 THEN words[1]
    ELSE words[1] \o <<" ">> \o JoinWords(Tail(words))

KeywordsInit ==
    /\ all_articles = <<>>
    /\ TFIDF_AVAILABLE = TRUE
    /\ call = NoCall
    /\ returned = <<>>
    /\ tpc = "ready"
    /\ raised = "none"
    /\ DedupIdle
    /\ HistIdle
    /\ FeedIdle

\* extract_keywords(' '.join(words))
CallExtractKeywords ==
    /\ tpc = "ready"
    /\ \E n \in 0..MaxKeywordWords :
          \E words \in [1..n -> Vocabulary] :
             Finish([fn |-> "extract_keywords", words |-> words],
                    Ok(ExtractKeywordsText(JoinWords(words))))

KeywordsNext == CallExtractKeywords

SpecKeywords == KeywordsInit /\ [][KeywordsNext]_vars

KeywordsReturned == tpc = "returned" /\ call.fn = "extract_keywords"

\* the tokens of 4+ word characters of the text of the call, lowered
LongWords ==
    LET long == {i \in 1..Len(call.words) : Len(call.words[i]) >= 4}
    IN  [k \in 1..Cardinality(long) |->
            lower(call.words[CHOOSE i \in long : Cardinality({j \in long : j <= i}) = k])]

\* neither a stopword, nor a 1900-2099 year, nor an all-digit token
IsContent(w) == w \notin KeywordStopwords /\ ~IsYear(w) /\ ~isdigit(w)

\* positions in LongWords of the unigrams and of the first words of bigrams
UnigramAt == {i \in 1..Len(LongWords) : IsContent(LongWords[i])}
BigramAt ==
    {i \in 1..(Len(LongWords) - 1) : IsContent(LongWords[i]) /\ IsContent(LongWords[i + 1])}

\* the k-th smallest element of a set of positions
NthOf(S, k) == CHOOSE i \in S : Cardinality({j \in S : j <= i}) = k

\* C29: extract_keywords returns all bigrams followed by all unigrams, each
\* group in left-to-right text order: a unigram for every token of 4+ word
\* characters that is not a stopword, a 1900-2099 year or an all-digit
\* token, a bigram for every pair of consecutive tokens of 4+ word
\* characters of which neither is a stopword, year or number; a text whose
\* tokens are all stopwords, or an empty text, yields the empty list.
C29_BigramsThenUnigrams ==
    KeywordsReturned =>
        /\ Len(returned) = Cardinality(BigramAt) + Cardinality(UnigramAt)
        /\ \A k \in 1..Cardinality(BigramAt) :
              returned[k] = LongWords[NthOf(BigramAt, k)] \o <<" ">>
                                \o LongWords[NthOf(BigramAt, k) + 1]
        /\ \A k \in 1..Cardinality(UnigramAt) :
              returned[Cardinality(BigramAt) + k] = LongWords[NthOf(UnigramAt, k)]
        /\ (\A i \in 1..Len(LongWords) : LongWords[i] \in KeywordStopwords) =>
              returned = <<>>

\* 'Iran on sanctions': the short word is dropped before the pairing, so
\* the bigram comes first and the two unigrams follow
C29_Witness ==
    /\ KeywordsReturned
    /\ call.words = <<<<"I","r","a","n">>, <<"o","n">>, <<"s","a","n","c","t","i","o","n","s">>>>
    /\ returned = <<<<"i","r","a","n"," ","s","a","n","c","t","i","o","n","s">>,
                    <<"i","r","a","n">>, <<"s","a","n","c","t","i","o","n","s">>>>

(***************************************************************************)
(* Properties of the scorers and of identify_trending_stories              *)
(***************************************************************************)
IdentifyReturned ==
    tpc = "returned" /\ call.fn = "identify_trending_stories"

\* indices of the articles collected for a keyword by the mode of the call
Collected(keyword) ==
    IF call.mode = "tfidf"
    THEN {i \in 1..Len(all_articles) :
             Contains(LowerText(ArticleText(all_articles[i])), keyword)}
    ELSE {i \in 1..Len(all_articles) :
             keyword \in Range(extract_keywords(ArticleText(all_articles[i])))}

\* C1: every returned topic, in both modes, has source_count >= 3, and
\* source_count is the number of distinct sources of all articles collected
\* for the keyword.
C1_SourceCountAtLeastThree ==
    IdentifyReturned =>
        \A k \in 1..Len(returned) :
            /\ returned[k].source_count >= 3
            /\ returned[k].source_count =
                   Cardinality({all_articles[i].source : i \in Collected(returned[k].keyword)})

\* the TF-IDF branch returned a topic carried by exactly three sources
\* while another article does not mention it
C1_Witness ==
    /\ IdentifyReturned /\ call.mode = "tfidf"
    /\ \E k \in 1..Len(returned) :
          /\ returned[k].source_count = 3
          /\ Cardinality(Collected(returned[k].keyword)) < Len(all_articles)

\* C2: every article of every returned topic contains the keyword as a
\* substring of lower(title + ' ' + summary), in both modes.
C2_ArticlesContainKeyword ==
    IdentifyReturned =>
        \A k \in 1..Len(returned) :
            \A n \in 1..Len(returned[k].articles) :
                Contains(lower(ArticleText(returned[k].articles[n])), returned[k].keyword)

\* C3: the TF-IDF branch never ends in a division by zero.
C3_NoZeroDivision ==
    (tpc # "ready" /\ call.fn = "identify_trending_stories" /\ call.mode = "tfidf")
        => raised # "ZeroDivisionError"

\* C15: in fallback mode the ranked list is the same for every order in
\* which the keyword sets of the articles are iterated.
C15_FallbackOrderIndependent ==
    (IdentifyReturned /\ call.mode = "fallback") =>
        \A trendingKeys \in FallbackOrders(all_articles) :
            IdentifyFallback(all_articles, trendingKeys,
                             FallbackTopics(all_articles)).value = returned

FirstIndex(list, x) == Min({i \in 1..Len(list) : list[i] = x})

\* a scorer result is in descending score order, equal scores in the order
\* in which the terms first occur in the documents
TiesInDocumentOrder(result, documents) ==
    \A i, j \in 1..Len(result) :
        i < j =>
            \/ result[i].score > result[j].score
            \/ /\ result[i].score = result[j].score
               /\ FirstIndex(Flatten(documents), result[i].term)
                      < FirstIndex(Flatten(documents), result[j].term)

\* position of a term in tfidf_keywords + tfidf_bigrams
TermRank(term) ==
    Min({k \in 1..Len(AllKeywords(all_articles)) :
            AllKeywords(all_articles)[k].term = term})

\* C16: the scorers and the TF-IDF branch return entries of equal score in
\* the order in which their terms are first met when the articles are
\* scanned in input order (terms first met in the same article keep the
\* scorers' order), so the result is a function of the article sequence.
C16_StableTieBreak ==
    (IdentifyReturned /\ call.mode = "tfidf") =>
        /\ TiesInDocumentOrder(
               extract_tfidf_keywords(all_articles, KeywordTopN, TrendMinDf),
               UnigramDocuments(all_articles))
        /\ TiesInDocumentOrder(
               extract_bigram_tfidf(all_articles, BigramTopN, TrendMinDf),
               BigramDocuments(all_articles))
        /\ \A i, j \in 1..Len(returned) :
              i < j =>
                  \/ returned[i].combined_score > returned[j].combined_score
                  \/ /\ returned[i].combined_score = returned[j].combined_score
                     /\ \/ Min(Collected(returned[i].keyword))
                               < Min(Collected(returned[j].keyword))
                        \/ /\ Min(Collected(returned[i].keyword))
                                  = Min(Collected(returned[j].keyword))
                           /\ TermRank(returned[i].keyword)
                                  < TermRank(returned[j].keyword)

\* the TF-IDF branch returned two topics of equal combined_score
C16_Witness ==
    /\ IdentifyReturned /\ call.mode = "tfidf"
    /\ \E i, j \in 1..Len(returned) :
          i < j /\ returned[i].combined_score = returned[j].combined_score

\* the terms identify_trending_stories looks for, by the mode of the call
CandidateTerms ==
    IF call.mode = "tfidf"
    THEN {AllKeywords(all_articles)[k].term : k \in 1..Len(AllKeywords(all_articles))}
    ELSE UNION {Range(extract_keywords(ArticleText(all_articles[i]))) :
                   i \in 1..Len(all_articles)}

\* C17: identify_trending_stories returns an empty list, without raising,
\* for an empty article list and whenever no term is carried by articles
\* of 3 distinct sources.
C17_EmptyWhenNothingQualifies ==
    (/\ tpc # "ready" /\ call.fn = "identify_trending_stories"
     /\ \A term \in CandidateTerms :
           Cardinality({all_articles[i].source : i \in Collected(term)}) < 3)
    => (tpc = "returned" /\ returned = <<>>)

\* C19: identify_trending_stories, in either mode, does not raise KeyError
\* for an article that lacks a 'title' or a 'summary' key.
C19_NoKeyError ==
    (tpc # "ready" /\ call.fn = "identify_trending_stories") => raised # "KeyError"

\* the raw score of a term in scored = tfidf_keywords + tfidf_bigrams
RawScore(scored, term) ==
    scored[CHOOSE k \in 1..Len(scored) : scored[k].term = term].score

\* the maximum over the unigram and the bigram results together
JointMax(scored) == Max({scored[k].score : k \in 1..Len(scored)})

Abs(x) == IF x < 0 THEN 0 - x ELSE x

\* the normalisation of one topic against the raw score of its term
NormalisedBy(topic, raw, top) ==
    /\ top > 0
    /\ topic.tfidf_score = Round4(raw, top)
    /\ topic.tfidf_score \in 0..10000
    /\ raw = top => topic.tfidf_score = 10000
    /\ topic.combined_score = Round4(raw * topic.source_count, top)
    /\ topic.combined_score <= 10000 * topic.source_count
    /\ 2 * Abs(topic.combined_score - topic.tfidf_score * topic.source_count)
           <= topic.source_count + 1

\* C23: in TF-IDF mode the tfidf_score of each topic is the raw score of its
\* term over the joint maximum of the unigram and bigram results, rounded
\* to 4 decimals (scores are in units of 0.0001): it lies in [0, 1] and is 1
\* for a term of maximal raw score; combined_score is that quotient times
\* source_count, rounded, within rounding of tfidf_score * source_count
\* and never above source_count.
C23_JointNormalisation ==
    (IdentifyReturned /\ call.mode = "tfidf" /\ returned # <<>>) =>
        LET scored == AllKeywords(all_articles)
            top == JointMax(scored)
        IN  \A k \in 1..Len(returned) :
                NormalisedBy(returned[k], RawScore(scored, returned[k].keyword), top)

\* a bigram of maximal raw score was returned with tfidf_score 1 next to a
\* unigram with a score strictly between 0 and 1
C23_Witness ==
    /\ IdentifyReturned /\ call.mode = "tfidf"
    /\ \E j, k \in 1..Len(returned) :
          /\ " " \in Range(returned[j].keyword)
          /\ returned[j].tfidf_score = 10000
          /\ " " \notin Range(returned[k].keyword)
          /\ returned[k].tfidf_score \in 1..9999

\* the sort key of topic k of the result, by the mode of the call
TopicKey(k) ==
    IF call.mode = "tfidf" THEN returned[k].combined_score ELSE returned[k].source_count

\* the articles collected for a keyword, in input order
Matching(keyword) == ArticlesWhere(all_articles, Len(all_articles), Collected(keyword))

\* C22: identify_trending_stories returns at most 10 topics in
\* non-increasing order of combined_score (TF-IDF mode) or source_count
\* (fallback mode), and the 'articles' of each topic are non-empty, at most
\* 10, and exactly the first 10 matching articles in input order.
C22_TopTenTopics ==
    IdentifyReturned =>
        /\ Len(returned) <= 10
        /\ \A k \in 1..(Len(returned) - 1) : TopicKey(k) >= TopicKey(k + 1)
        /\ \A k \in 1..Len(returned) :
              /\ returned[k].articles # <<>>
              /\ Len(returned[k].articles) <= 10
              /\ returned[k].articles =
                     SubSeq(Matching(returned[k].keyword), 1,
                            Min({10, Len(Matching(returned[k].keyword))}))

\* both cuts happened: ten topics were returned although more than ten
\* terms are carried by three sources, and a returned topic has more than
\* ten matching articles
C22_Witness ==
    /\ IdentifyReturned
    /\ Len(returned) = 10
    /\ Cardinality({t \in CandidateTerms :
                       Cardinality({all_articles[i].source : i \in Collected(t)}) >= 3}) > 10
    /\ \E k \in 1..Len(returned) : Cardinality(Collected(returned[k].keyword)) > 10

\* the number of distinct sources of the articles whose text contains the term
SourcesCarrying(term) ==
    Cardinality({all_articles[i].source : i \in Collected(term)})

\* the terms of a scorer result that are contained in articles of at least
\* 3 distinct sources
QualifyingTerms(scored) ==
    {t \in {scored[k].term : k \in 1..Len(scored)} : SourcesCarrying(t) >= 3}

\* C28: in TF-IDF mode, when at most 10 terms qualify and the maximum raw
\* score is positive, every term returned by extract_tfidf_keywords or
\* extract_bigram_tfidf whose containing articles come from at least 3
\* distinct sources is a topic of the result, with source_count equal to
\* that number of sources; a term contained in articles of fewer than 3
\* sources is never a topic.
C28_QualifyingTermsListed ==
    (IdentifyReturned /\ call.mode = "tfidf") =>
        LET scored == AllKeywords(all_articles)
            qualifying == QualifyingTerms(scored)
        IN  /\ (Cardinality(qualifying) <= 10 /\ scored # <<>> /\ JointMax(scored) > 0) =>
                  \A t \in qualifying :
                      \E k \in 1..Len(returned) :
                          /\ returned[k].keyword = t
                          /\ returned[k].source_count = SourcesCarrying(t)
            /\ \A k \in 1..Len(returned) : returned[k].keyword \in qualifying

\* some scored terms are carried by three sources, one of them with score
\* 0, and are all returned, while a scored term of fewer sources is not
C28_Witness ==
    /\ IdentifyReturned /\ call.mode = "tfidf"
    /\ LET scored == AllKeywords(all_articles)
       IN  /\ scored # <<>>
           /\ JointMax(scored) > 0
           /\ Cardinality(QualifyingTerms(scored)) = Len(returned)
           /\ \E k \in 1..Len(returned) : returned[k].tfidf_score = 0
           /\ \E k \in 1..Len(returned) : returned[k].tfidf_score > 0
           /\ \E k \in 1..Len(scored) : SourcesCarrying(scored[k].term) \in 1..2

ScorerReturned ==
    tpc = "returned" /\ call.fn \in {"extract_tfidf_keywords", "extract_bigram_tfidf"}

CallDocuments ==
    IF call.fn = "extract_tfidf_keywords"
    THEN UnigramDocuments(all_articles)
    ELSE BigramDocuments(all_articles)

\* number of documents that contain the term at least once
TrueDocFreq(term) ==
    Cardinality({d \in 1..Len(CallDocuments) : term \in Range(CallDocuments[d])})

\* number of occurrences of the term in the whole collection
Occurrences(term) == CountIn(Flatten(CallDocuments), term)

\* C4: no term returned by either scorer is contained in fewer than min_df
\* documents, a document counting once however often it repeats the term.
C4_DfFilter ==
    ScorerReturned =>
        \A k \in 1..Len(returned) : TrueDocFreq(returned[k].term) >= call.min_df

\* a term was returned, and another one that occurs min_df times but in
\* fewer than min_df documents was left out
C4_Witness ==
    /\ ScorerReturned /\ call.min_df >= 2
    /\ returned # <<>>
    /\ Len(returned) < call.top_n
    /\ \E t \in Range(Flatten(CallDocuments)) :
          /\ Occurrences(t) >= call.min_df
          /\ TrueDocFreq(t) < call.min_df
          /\ \A k \in 1..Len(returned) : returned[k].term # t

\* C20: a call of a scorer with a negative min_df ends in an error instead
\* of returning a ranking.
C20_NegativeMinDfRejected ==
    (/\ tpc # "ready"
     /\ call.fn \in {"extract_tfidf_keywords", "extract_bigram_tfidf"}
     /\ call.min_df < 0)
    => tpc = "raised"

\* C18: every score returned by a scorer is >= 0, and a returned term that
\* occurs in every document has score 0 and comes after every term with a
\* positive score.
C18_ScoresNonNegative ==
    ScorerReturned =>
        \A k \in 1..Len(returned) :
            /\ returned[k].score >= 0
            /\ TrueDocFreq(returned[k].term) = Len(CallDocuments) =>
                  /\ returned[k].score = 0
                  /\ \A j \in 1..Len(returned) : returned[j].score > 0 => j < k

\* a term of positive score was returned ahead of one found in every document
C18_Witness ==
    /\ ScorerReturned
    /\ \E j, k \in 1..Len(returned) :
          /\ j < k /\ returned[j].score > 0 /\ returned[k].score = 0
          /\ TrueDocFreq(returned[k].term) = Len(CallDocuments)
          /\ Len(CallDocuments) > 1

\* the terms that pass the document-frequency filter of the call
Surviving ==
    {t \in Range(Flatten(CallDocuments)) : TrueDocFreq(t) >= call.min_df}

\* the TF-IDF score of a surviving term, from the documents of the call
ScoreOf(term) ==
    TfidfScore(CallDocuments, [t \in Surviving |-> TrueDocFreq(t)], term)

ReturnedTerms == {returned[k].term : k \in 1..Len(returned)}

\* C21: both scorers return (term, score) pairs in non-increasing score
\* order, at most top_n of them, each a surviving term with its score, and
\* no surviving term that was left out has a score strictly greater than
\* that of a returned one.
C21_RankedTopN ==
    ScorerReturned =>
        /\ Len(returned) <= call.top_n
        /\ \A k \in 1..(Len(returned) - 1) : returned[k].score >= returned[k + 1].score
        /\ \A k \in 1..Len(returned) :
              /\ returned[k].term \in Surviving
              /\ returned[k].score = ScoreOf(returned[k].term)
        /\ \A t \in Surviving \ ReturnedTerms :
              \A k \in 1..Len(returned) : ScoreOf(t) <= returned[k].score

\* top_n cut the ranking: a surviving term of strictly lower score, met
\* earlier in the documents than the returned one, was left out
C21_Witness ==
    /\ ScorerReturned
    /\ Len(returned) = call.top_n
    /\ \E t \in Surviving \ ReturnedTerms :
          /\ ScoreOf(t) < returned[Len(returned)].score
          /\ FirstIndex(Flatten(CallDocuments), t)
                 < FirstIndex(Flatten(CallDocuments), returned[Len(returned)].term)

(***************************************************************************)
(* load_historical_context.py.  Dates are counted in half days: a briefing *)
(* or post dated `age` days before today is at -2 * age (its midnight),    *)
(* and datetime.now() is `now` half days after today's midnight.           *)
(***************************************************************************)
\* get_temporal_buckets(); sample_rate in percent, max_articles 0 for None,
\* start_date = now - days_back days, end_date = now - end_back days
\* a plausible slip: last_month keeps the rate of last_week
TemporalBucketsFlatRate ==
    <<[name |-> "today",        days_back |-> 1,   sample_rate |-> 100,
       max_articles |-> None,     end_back |-> 0],
      [name |-> "last_week",    days_back |-> 7,   sample_rate |-> 75,
       max_articles |-> Cap(100), end_back |-> 1],
      [name |-> "last_month",   days_back |-> 30,  sample_rate |-> 75,
       max_articles |-> Cap(50), end_back |-> 7],
      [name |-> "last_quarter", days_back |-> 90,  sample_rate |-> 25,
       max_articles |-> Cap(25), end_back |-> 30],
      [name |-> "last_year",    days_back |-> 365, sample_rate |-> 10,
       max_articles |-> Cap(10), end_back |-> 90]>>

\* a plausible slip: the windows are cumulative, each reaching up to now
TemporalBucketsCumulative ==
    <<[name |-> "today",        days_back |-> 1,   sample_rate |-> 100,
       max_articles |-> None,     end_back |-> 0],
      [name |-> "last_week",    days_back |-> 7,   sample_rate |-> 75,
       max_articles |-> Cap(100), end_back |-> 0],
      [name |-> "last_month",   days_back |-> 30,  sample_rate |-> 50,
       max_articles |-> Cap(50), end_back |-> 0],
      [name |-> "last_quarter", days_back |-> 90,  sample_rate |-> 25,
       max_articles |-> Cap(25), end_back |-> 0],
      [name |-> "last_year",    days_back |-> 365, sample_rate |-> 10,
       max_articles |-> Cap(10), end_back |-> 0]>>

TemporalBuckets ==
    <<[name |-> "today",        days_back |-> 1,   sample_rate |-> 100,
       max_articles |-> None,     end_back |-> 0],
      [name |-> "last_week",    days_back |-> 7,   sample_rate |-> 75,
       max_articles |-> Cap(100), end_back |-> 1],
      [name |-> "last_month",   days_back |-> 30,  sample_rate |-> 50,
       max_articles |-> Cap(50), end_back |-> 7],
      [name |-> "last_quarter", days_back |-> 90,  sample_rate |-> 25,
       max_articles |-> Cap(25), end_back |-> 30],
      [name |-> "last_year",    days_back |-> 365, sample_rate |-> 10,
       max_articles |-> Cap(10), end_back |-> 90]>>

\* datetime.now() in half days after today's midnight: midnight or midday
Nows == {0, 1}

\* now - timedelta(days=...), for the value t of now
StartDateAt(t, b) == t - 2 * b.days_back
EndDateAt(t, b)   == t - 2 * b.end_back
start_date(b) == StartDateAt(now, b)
end_date(b)   == EndDateAt(now, b)
DateOf(age)   == 0 - 2 * age

\* bucket['start_date'] <= date < bucket['end_date']
InBucketAt(t, b, age) == StartDateAt(t, b) <= DateOf(age) /\ DateOf(age) < EndDateAt(t, b)
InBucket(b, age) == InBucketAt(now, b, age)

\* a list of ages, most recent last (sorted file names) or first (reverse)
RECURSIVE OldestFirst(_)
OldestFirst(ages) ==
    IF ages = {} THEN <<>>
    ELSE <<Max(ages)>> \o OldestFirst(ages \ {Max(ages)})

RECURSIVE NewestFirst(_)
NewestFirst(ages) ==
    IF ages = {} THEN <<>>
    ELSE <<Min(ages)>> \o NewestFirst(ages \ {Min(ages)})

FileAt(files, age) == CHOOSE f \in files : f.age = age

\* load_briefings_in_bucket: the readable briefings dated inside the bucket
load_briefings_in_bucket(b, files) ==
    LET ages == {f.age : f \in {g \in files : g.readable /\ InBucket(b, g.age)}}
        order == OldestFirst(ages)
    IN  [k \in 1..Len(order) |->
            [date |-> order[k], briefing |-> FileAt(files, order[k]).briefing]]

DigestChars == 3000

\* load_digests_in_bucket
load_digests_in_bucket(b, dir) ==
    IF ~dir.exists THEN <<>>
    ELSE LET ages == {f.age : f \in {g \in dir.files : InBucket(b, g.age)}}
             order == NewestFirst(ages)
             max_chars == (DigestChars * b.sample_rate) \div 100
             digest_files ==
                 [k \in 1..Len(order) |->
                     [date |-> order[k],
                      content |-> IF FileAt(dir.files, order[k]).length < max_chars
                                  THEN FileAt(dir.files, order[k]).length
                                  ELSE max_chars,
                      weight |-> b.sample_rate]]
         IN  IF Truthy(b.max_articles) THEN Prefix(digest_files, b.max_articles.value)
             ELSE digest_files

(***************************************************************************)
(* Double-precision arithmetic of `step = len(articles) / target_count`    *)
(* and `int(i * step)` (lines 112-116).  A double keeps 53 significant     *)
(* bits.  The fraction of a value is held in three limbs of 13 bits and a  *)
(* last limb of `width` bits, so that every product stays a small integer. *)
(***************************************************************************)
Limb == Pow2(13)

\* x.bit_length()
BitLen(x) == Cardinality({b \in 0..30 : Pow2(b) <= x})

\* the quotient n / t (n > t >= 1) cut off after the bits a double keeps,
\* and the remainder that decides the rounding
StepCut(n, t) ==
    LET whole == n \div t
        width == 14 - BitLen(whole)
        d1 == (n % t) * Limb
        d2 == (d1 % t) * Limb
        d3 == (d2 % t) * Limb
        d4 == (d3 % t) * Pow2(width)
    IN  [whole |-> whole, width |-> width,
         l1 |-> d1 \div t, l2 |-> d2 \div t, l3 |-> d3 \div t, l4 |-> d4 \div t,
         rest |-> d4 % t]

\* one unit in the last place is added and the carry runs upwards
StepUp(c) ==
    LET s4 == c.l4 + 1
        s3 == c.l3 + (s4 \div Pow2(c.width))
        s2 == c.l2 + (s3 \div Limb)
        s1 == c.l1 + (s2 \div Limb)
    IN  [c EXCEPT !.l4 = s4 % Pow2(c.width), !.l3 = s3 % Limb, !.l2 = s2 % Limb,
                  !.l1 = s1 % Limb, !.whole = @ + (s1 \div Limb)]

\* round to nearest, ties to the even mantissa
StepRound(c, t) ==
    IF 2 * c.rest > t \/ (2 * c.rest = t /\ c.l4 % 2 = 1) THEN StepUp(c) ELSE c

\* step = len(articles) / target_count as a double
FloatStep(n, t) == StepRound(StepCut(n, t), t)

\* the exact product i * step: its integer part and its fraction limbs
TimesStep(i, st) ==
    LET p4 == st.l4 * i
        p3 == st.l3 * i + (p4 \div Pow2(st.width))
        p2 == st.l2 * i + (p3 \div Limb)
        p1 == st.l1 * i + (p2 \div Limb)
    IN  [whole |-> st.whole * i + (p1 \div Limb), width |-> st.width,
         l1 |-> p1 % Limb, l2 |-> p2 % Limb, l3 |-> p3 % Limb,
         l4 |-> p4 % Pow2(st.width)]

\* int(x) of the double nearest to the product p, where `drop` low bits of
\* the fraction do not fit the mantissa: the integer part grows by one only
\* when rounding up carries through a fraction of ones
IntOfRounded(p, drop) ==
    LET low  == p.l4 % Pow2(drop)
        keep == p.l4 \div Pow2(drop)
        half == Pow2(drop) \div 2
        up   == low > half \/ (low = half /\ keep % 2 = 1)
    IN  IF /\ drop > 0
           /\ up
           /\ keep = Pow2(p.width - drop) - 1
           /\ p.l3 = Limb - 1 /\ p.l2 = Limb - 1 /\ p.l1 = Limb - 1
        THEN p.whole + 1
        ELSE p.whole

\* a plausible slip: the index is rounded to the nearest integer
RoundedIndex(i, n, t) == (2 * i * n + t) \div (2 * t)

\* idx = int(i * step) with step = n / t (lines 112, 116)
FloatIndex(i, n, t) ==
    LET p == TimesStep(i, FloatStep(n, t))
    IN  IF p.whole = 0 THEN 0
        ELSE IntOfRounded(p, BitLen(p.whole) - BitLen(n \div t))

\* sample_articles(articles, sample_rate, max_articles).  The rates of the
\* bucket tables (0.1, 0.25, 0.5, 0.75, 1.0) are doubles not below the
\* fractions they stand for, so int(len(articles) * sample_rate) is the
\* floor of the exact product.
sample_articles(arts, sample_rate, max_articles) ==
    IF arts = <<>> THEN Ok(<<>>)
    ELSE LET scaled == (Len(arts) * sample_rate) \div 100
             target_count == IF Truthy(max_articles)
                             THEN Min({scaled, max_articles.value}) ELSE scaled
         IN  IF target_count >= Len(arts) THEN Ok(arts)
             ELSE IF target_count = 0
             THEN Raise("ZeroDivisionError")      \* step = len(articles) / 0
             ELSE IF target_count < 0
             THEN Ok(<<>>)                        \* range(target_count) is empty
             ELSE Ok([i \in 1..target_count |->
                         arts[FloatIndex(i - 1, Len(arts), target_count) + 1]])

\* briefing.get('all_articles', briefing.get('top_headlines', []))
BriefingArticles(briefing) ==
    DictGet(briefing, "all_articles", DictGet(briefing, "top_headlines", <<>>))

RECURSIVE SampleBriefings(_, _, _)
\* the inner loop `for briefing_data in briefings` over the first n
\* briefings: the list built, the last value bound to sampled_articles,
\* the number of articles sampled, and the exception that stopped it
SampleBriefings(b, briefings, n) ==
    IF n = 0
    THEN [raised |-> "none", sampled_briefings |-> <<>>, last |-> Unbound, count |-> 0]
    ELSE LET before == SampleBriefings(b, briefings, n - 1)
             all == BriefingArticles(briefings[n].briefing)
             s   == sample_articles(all, b.sample_rate, b.max_articles)
         IN  IF before.raised # "none" THEN before
             ELSE IF s.raised # "none" THEN [before EXCEPT !.raised = s.raised]
             ELSE [raised |-> "none",
                   sampled_briefings |->
                       Append(before.sampled_briefings,
                              [date |-> briefings[n].date,
                               total_articles |-> Len(all),
                               sampled_articles |-> s.value,
                               weight |-> b.sample_rate]),
                   last |-> Bound(s.value),
                   count |-> before.count + Len(s.value)]

(***************************************************************************)
(* create_historical_context                                               *)
(***************************************************************************)
BriefingAges == {0, 1, 7, 30, 90, 365}
PostAges == {0, 30}
PostLength == 4000

BriefingDicts ==
    {[all_articles |-> [i \in 1..n |-> i]] : n \in {1, MaxBriefingArticles}}
    \cup {[top_headlines |-> <<1, 2>>]}

\* a file that cannot be parsed or is not dated is skipped by the except clause
BriefingFiles ==
    {[age |-> a, readable |-> TRUE, briefing |-> d] : a \in BriefingAges, d \in BriefingDicts}
    \cup {[age |-> a, readable |-> FALSE, briefing |-> [corrupt |-> TRUE]] :
             a \in BriefingAges}

Archives ==
    {fs \in SUBSET BriefingFiles :
        /\ Cardinality(fs) <= MaxBriefings
        /\ \A f, g \in fs : f.age = g.age => f = g}

PostDirs ==
    {[exists |-> FALSE, files |-> {}],
     [exists |-> TRUE, files |-> {}],
     [exists |-> TRUE, files |-> {[age |-> a, length |-> PostLength] : a \in PostAges}]}

HistInit ==
    /\ research \in Archives
    /\ posts \in PostDirs
    /\ now \in Nows
    /\ bucket = 1
    /\ sampled_articles = Unbound
    /\ historical_context = [temporal_buckets |-> <<>>]
    /\ totals = [briefings |-> 0, articles |-> 0, digests |-> 0]
    /\ hpc = "loop"
    /\ sampling = NoSampling /\ sampled = <<>>
    /\ weighted_articles = <<>>
    /\ raised = "none"
    /\ DedupIdle
    /\ TrendIdle
    /\ FeedIdle

\* one pass of `for bucket in buckets` (lines 176-226), ended early by an
\* exception of sample_articles or of the final print
ProcessBucket ==
    /\ hpc = "loop"
    /\ bucket <= Len(TemporalBuckets)
    /\ LET b == TemporalBuckets[bucket]
           briefings == load_briefings_in_bucket(b, research)
           digests   == load_digests_in_bucket(b, posts)
           inner     == SampleBriefings(b, briefings, Len(briefings))
           local     == IF inner.last.bound THEN inner.last ELSE sampled_articles
           bucket_data ==
               [name |-> b.name, days_back |-> b.days_back,
                sample_rate |-> b.sample_rate,
                date_range |-> [start |-> start_date(b), end |-> end_date(b)],
                briefings |-> inner.sampled_briefings,
                digests |-> digests]
       IN  IF inner.raised # "none"
           THEN /\ raised' = inner.raised
                /\ hpc' = "raised"
                /\ UNCHANGED <<bucket, sampled_articles, historical_context, totals>>
           ELSE /\ totals' = [briefings |-> totals.briefings + Len(inner.sampled_briefings),
                              articles |-> totals.articles + inner.count,
                              digests |-> totals.digests + Len(digests)]
                /\ historical_context' =
                       [temporal_buckets |->
                           Append(historical_context.temporal_buckets, bucket_data)]
                /\ sampled_articles' = local
                \* print(f"... Sampled {len(sampled_articles)} articles")
                /\ IF local.bound
                   THEN /\ bucket' = bucket + 1
                        /\ UNCHANGED <<hpc, raised>>
                   ELSE /\ raised' = "UnboundLocalError"
                        /\ hpc' = "raised"
                        /\ UNCHANGED bucket
    /\ UNCHANGED <<research, posts, now, sampling, sampled, weighted_articles,
                   dedupVars, trendVars,
                   feedVars>>

\* historical_context['summary'] = ...; return historical_context
HistReturn ==
    /\ hpc = "loop"
    /\ bucket > Len(TemporalBuckets)
    /\ historical_context' =
           [temporal_buckets |-> historical_context.temporal_buckets,
            summary |-> [total_briefings |-> totals.briefings,
                         total_articles_sampled |-> totals.articles,
                         total_digests |-> totals.digests]]
    /\ hpc' = "returned"
    /\ UNCHANGED <<research, posts, now, bucket, sampled_articles, totals,
                   sampling, sampled, weighted_articles, raised, dedupVars, trendVars,
                   feedVars>>

HistNext == ProcessBucket \/ HistReturn

SpecHist == HistInit /\ [][HistNext]_vars

\* C10: create_historical_context completes without raising for every
\* archive, and a bucket with no briefing in its range gets an empty
\* 'briefings' list.
C10_CompletesForEveryArchive ==
    /\ hpc # "raised"
    /\ hpc = "returned" =>
          \A k \in 1..Len(TemporalBuckets) :
              (\A f \in research : ~(f.readable /\ InBucket(TemporalBuckets[k], f.age)))
                  => historical_context.temporal_buckets[k].briefings = <<>>

\* the buckets, among those processed so far, that sampled the briefing
\* dated `age` days back
BucketsHolding(age) ==
    {k \in 1..Len(historical_context.temporal_buckets) :
        \E j \in 1..Len(historical_context.temporal_buckets[k].briefings) :
            historical_context.temporal_buckets[k].briefings[j].date = age}

\* the buckets whose date range contains the midnight `age` days back,
\* for the value t of now
BucketsOf(t, age) ==
    {k \in 1..Len(TemporalBuckets) : InBucketAt(t, TemporalBuckets[k], age)}

\* the values of now for which each bucket ends where the next narrower one
\* starts and every midnight in [now - 365 days, now) lies in one bucket
PartitionedNows ==
    {t \in Nows :
        /\ \A k \in 2..Len(TemporalBuckets) :
              EndDateAt(t, TemporalBuckets[k]) = StartDateAt(t, TemporalBuckets[k - 1])
        /\ \A age \in 0..(Max(BriefingAges) + 1) :
              (StartDateAt(t, TemporalBuckets[Len(TemporalBuckets)]) <= DateOf(age)
                  /\ DateOf(age) < t)
              => Cardinality(BucketsOf(t, age)) = 1}

\* C12: each bucket ends where the next narrower one starts, every date in
\* [now - 365 days, now) lies in exactly one bucket, and
\* create_historical_context samples each briefing into at most one bucket.
C12_BucketsPartition ==
    /\ now \in PartitionedNows
    /\ \A f \in research : Cardinality(BucketsHolding(f.age)) <= 1

\* the call returned after sampling a briefing dated exactly 7 days back
\* and another one from a different bucket
C12_Witness ==
    /\ hpc = "returned"
    /\ BucketsHolding(7) # {}
    /\ \E f \in research : f.age # 7 /\ BucketsHolding(f.age) \notin {{}, BucketsHolding(7)}

(***************************************************************************)
(* Direct calls of sample_articles                                         *)
(***************************************************************************)
MaxSampleLen == 40
LongSample == 500

\* sample rates in percent: those of the bucket table, and 0
SampleRates == {0, 10, 25, 50, 75, 100}
SampleCaps == {None} \cup {Cap(n) : n \in {0, 1, 2, 3, 25, 100}}

SampleInit ==
    /\ \E n \in (0..MaxSampleLen) \cup {LongSample},
          sample_rate \in SampleRates, max_articles \in SampleCaps :
          sampling = [articles |-> [i \in 1..n |-> i], sample_rate |-> sample_rate,
                      max_articles |-> max_articles]
    /\ sampled = <<>>
    /\ weighted_articles = <<>>
    /\ hpc = "call"
    /\ research = {} /\ posts = [exists |-> FALSE, files |-> {}]
    /\ now = 1 /\ bucket = 1
    /\ sampled_articles = Unbound
    /\ historical_context = [temporal_buckets |-> <<>>]
    /\ totals = [briefings |-> 0, articles |-> 0, digests |-> 0]
    /\ raised = "none"
    /\ DedupIdle
    /\ TrendIdle
    /\ FeedIdle

\* sample_articles(articles, sample_rate, max_articles)
CallSampleArticles ==
    /\ hpc = "call"
    /\ LET outcome == sample_articles(sampling.articles, sampling.sample_rate,
                                      sampling.max_articles)
       IN  /\ sampled' = outcome.value
           /\ raised' = outcome.raised
           /\ hpc' = IF outcome.raised = "none" THEN "sampled" ELSE "raised"
    /\ UNCHANGED <<research, posts, now, bucket, sampled_articles,
                   historical_context, totals, sampling, weighted_articles,
                   dedupVars, trendVars,
                   feedVars>>

SampleNext == CallSampleArticles

SpecSample == SampleInit /\ [][SampleNext]_vars

\* C11: sample_articles returns at most min(len(articles) * sample_rate,
\* max_articles) items, and at most len(articles) * sample_rate items when
\* max_articles is None.
C11_SampleBound ==
    hpc = "sampled" =>
        /\ Len(sampled) * 100 <= Len(sampling.articles) * sampling.sample_rate
        /\ ~sampling.max_articles.none => Len(sampled) <= sampling.max_articles.value

\* target_count of sample_articles for the call in `sampling`
SampleTarget ==
    LET scaled == (Len(sampling.articles) * sampling.sample_rate) \div 100
    IN  IF Truthy(sampling.max_articles)
        THEN Min({scaled, sampling.max_articles.value}) ELSE scaled

\* C26: for every non-empty article list, sample rate in [0, 1] and cap,
\* sample_articles returns a list and does not raise; when the target count
\* is 0 the list returned is empty.
C26_SampleNeverRaises ==
    (hpc \in {"sampled", "raised"} /\ sampling.articles # <<>>) =>
        /\ hpc = "sampled"
        /\ raised = "none"
        /\ SampleTarget = 0 => sampled = <<>>

\* the call returned and 1 <= target_count < len(articles)
SampledSome ==
    /\ hpc = "sampled"
    /\ 1 <= SampleTarget
    /\ SampleTarget < Len(sampling.articles)

\* floor(i * len / target)
ExactIndex(i) == (i * Len(sampling.articles)) \div SampleTarget

\* C27 (as stated): when 1 <= target < len(articles), sample_articles
\* returns exactly target items, the items at the indices
\* floor(i * len / target) for i = 0..target-1.
C27_ExactIndices ==
    SampledSome =>
        /\ Len(sampled) = SampleTarget
        /\ \A i \in 0..(SampleTarget - 1) :
              sampled[i + 1] = sampling.articles[ExactIndex(i) + 1]

\* C27 (amended): when 1 <= target < len(articles), sample_articles returns
\* exactly target items; item i is the article at index
\* floor(i * len / target), or at the index before it when i * len / target
\* is a whole number and target does not divide len (the double product
\* i * step can fall just below that number).  The indices start at 0, are
\* strictly increasing and below len, so the sample is an order-preserving
\* subsequence with no article repeated.  (Article k of the list is the
\* number k, so items compare as their positions.)
C27_SampleIndices ==
    SampledSome =>
        /\ Len(sampled) = SampleTarget
        /\ sampled[1] = sampling.articles[1]
        /\ \A i \in 0..(SampleTarget - 1) :
              \/ sampled[i + 1] = sampling.articles[ExactIndex(i) + 1]
              \/ /\ (i * Len(sampling.articles)) % SampleTarget = 0
                 /\ Len(sampling.articles) % SampleTarget # 0
                 /\ ExactIndex(i) >= 1
                 /\ sampled[i + 1] = sampling.articles[ExactIndex(i)]
        /\ \A i \in 1..(SampleTarget - 1) : sampled[i] < sampled[i + 1]
        /\ sampled[SampleTarget] <= Len(sampling.articles)

\* 40 articles at rate 0.75 and cap 100 give 30 items
C27_Witness ==
    /\ SampledSome
    /\ Len(sampling.articles) = 40
    /\ sampling.sample_rate = 75
    /\ sampling.max_articles = Cap(100)
    /\ Len(sampled) = 30

(***************************************************************************)
(* load_historical_context_weighted (generate_ai_draft.py)                 *)
(***************************************************************************)
\* the bucket table of lines 153-157, weights in percent
WeightedBuckets ==
    <<[days |-> 7,  weight |-> 100, max_articles |-> 100],
      [days |-> 30, weight |-> 50,  max_articles |-> 50],
      [days |-> 90, weight |-> 25,  max_articles |-> 25]>>

\* articles[::step][:sample_count]
StrideSlice(arts, step, sample_count) ==
    [i \in 1..Min({sample_count, (Len(arts) + step - 1) \div step}) |->
        arts[(i - 1) * step + 1]]

\* the articles sampled from one briefing (lines 173-179)
WeightedSample(arts, b) ==
    LET sample_count == Min({(Len(arts) * b.weight) \div 100, b.max_articles})
    IN  IF sample_count > 0
        THEN StrideSlice(arts, Max({1, Len(arts) \div sample_count}), sample_count)
        ELSE <<>>

RECURSIVE ArticlesInBucket(_, _, _)
\* articles_in_bucket after the scan of the briefing files dated `order`,
\* oldest first; a file that cannot be read is skipped by the except clause
ArticlesInBucket(b, files, order) ==
    IF order = <<>> THEN <<>>
    ELSE LET age == order[Len(order)]
             f == FileAt(files, age)
             s == WeightedSample(BriefingArticles(f.briefing), b)
         IN  ArticlesInBucket(b, files, SubSeq(order, 1, Len(order) - 1))
             \o (IF f.readable /\ DateOf(age) >= now - 2 * b.days   \* line 167
                 THEN [i \in 1..Len(s) |->
                          [date |-> age, article |-> s[i], weight |-> b.weight]]
                 ELSE <<>>)

WeightedInit ==
    /\ research \in Archives
    /\ now \in Nows
    /\ bucket = 1
    /\ weighted_articles = <<>>
    /\ hpc = "scan"
    /\ posts = [exists |-> FALSE, files |-> {}]
    /\ sampled_articles = Unbound
    /\ historical_context = [temporal_buckets |-> <<>>]
    /\ totals = [briefings |-> 0, articles |-> 0, digests |-> 0]
    /\ sampling = NoSampling /\ sampled = <<>>
    /\ raised = "none"
    /\ DedupIdle
    /\ TrendIdle
    /\ FeedIdle

\* one pass of `for bucket in buckets` (lines 161-193)
ScanWeightedBucket ==
    /\ hpc = "scan"
    /\ bucket <= Len(WeightedBuckets)
    /\ weighted_articles' =
           weighted_articles
           \o ArticlesInBucket(WeightedBuckets[bucket], research,
                               OldestFirst({f.age : f \in research}))
    /\ bucket' = bucket + 1
    /\ UNCHANGED <<research, posts, now, sampled_articles, historical_context,
                   totals, hpc, sampling, sampled, raised, dedupVars, trendVars,
                   feedVars>>

\* return weighted_articles
WeightedReturn ==
    /\ hpc = "scan"
    /\ bucket > Len(WeightedBuckets)
    /\ hpc' = "returned"
    /\ UNCHANGED <<research, posts, now, bucket, sampled_articles,
                   historical_context, totals, sampling, sampled,
                   weighted_articles, raised, dedupVars, trendVars,
                   feedVars>>

WeightedNext == ScanWeightedBucket \/ WeightedReturn

SpecWeighted == WeightedInit /\ [][WeightedNext]_vars

\* C13: no article of one briefing is returned by
\* load_historical_context_weighted more than once, or with two weights.
C13_WeightedBucketsDisjoint ==
    \A i, j \in 1..Len(weighted_articles) :
        (/\ weighted_articles[i].date = weighted_articles[j].date
         /\ weighted_articles[i].article = weighted_articles[j].article)
        => i = j

\* C14: in both bucket tables a bucket that reaches further back has a
\* strictly smaller sample rate, and so have the buckets that
\* create_historical_context writes to its result.
C14_RatesStrictlyDecrease ==
    /\ \A a, b \in Range(TemporalBuckets) :
          a.days_back < b.days_back => a.sample_rate > b.sample_rate
    /\ \A a, b \in Range(WeightedBuckets) :
          a.days < b.days => a.weight > b.weight
    /\ \A a, b \in Range(historical_context.temporal_buckets) :
          a.days_back < b.days_back => a.sample_rate > b.sample_rate

\* create_historical_context returned all five buckets
C14_Witness ==
    /\ hpc = "returned"
    /\ {b.days_back : b \in Range(historical_context.temporal_buckets)}
           = {b.days_back : b \in Range(TemporalBuckets)}
    /\ Cardinality({b.sample_rate : b \in Range(historical_context.temporal_buckets)})
           = Len(TemporalBuckets)

(***************************************************************************)
(* Inputs of deduplicate_articles                                          *)
(***************************************************************************)
TitleTalks    == <<"N","A","T","O"," ","t","a","l","k","s">>
TitleTalksOn  == <<" ","N","a","t","o"," ","t","a","l","k","s"," ","o","n">>
TitleTalksAid == <<"N","A","T","O"," ","t","a","l","k","s"," ","o","n"," ","a","i","d"," ">>

DedupTitles == {<<>>, TitleTalks, TitleTalksOn, TitleTalksAid}
DedupLinks  == {"", "https://tass.com/1", "https://ria.ru/2"}

\* article dicts; the 'link' and 'title' keys may be absent
DedupArticles ==
    {[source |-> "TASS", link |-> l, title |-> t] : l \in DedupLinks, t \in DedupTitles}
    \cup {[source |-> "TASS", link |-> "https://tass.com/1"],
          [source |-> "TASS", title |-> TitleTalks],
          [source |-> "TASS"]}

NormTitle(article) == strip(lower(DictGet(article, "title", <<>>)))

NormTitles == {NormTitle(a) : a \in DedupArticles}

\* the ratios of all title pairs of the input space, computed once
RatioTable ==
    {[a |-> p[1], b |-> p[2], ratio |-> SequenceMatcherRatio(p[1], p[2])] :
        p \in NormTitles \X NormTitles}

\* title_similarity(title1, title2)
title_similarity(title1, title2) ==
    IF \E e \in RatioTable : e.a = title1 /\ e.b = title2
    THEN (CHOOSE e \in RatioTable : e.a = title1 /\ e.b = title2).ratio
    ELSE SequenceMatcherRatio(title1, title2)

\* ratio > 0.85, on the exact fraction
SimilarityPct == 85
AboveThreshold(r) == r.num * 100 > SimilarityPct * r.den

(***************************************************************************)
(* deduplicate_articles: one iteration of the for-loop                     *)
(***************************************************************************)
\* a plausible slip: the truthiness guards on url and title are forgotten
LoopBodyNoGuards(st, article) ==
    LET url   == DictGet(article, "link", "")
        title == strip(lower(DictGet(article, "title", <<>>)))
    IN  IF url \in st.seen_urls
        THEN [st EXCEPT !.duplicates = @ + 1]
        ELSE IF \E k \in 1..Len(st.seen_titles) :
                    AboveThreshold(title_similarity(title, st.seen_titles[k]))
        THEN [st EXCEPT !.duplicates = @ + 1]
        ELSE [st EXCEPT !.seen_urls = @ \cup {url},
                        !.seen_titles = Append(@, title),
                        !.unique_articles = Append(@, article)]

\* a plausible slip: article['link'] and article['title'] instead of .get()
LoopBodyIndexed(st, article) ==
    IF "link" \notin DOMAIN article \/ "title" \notin DOMAIN article
    THEN [st EXCEPT !.raised = "KeyError"]
    ELSE LET url   == article["link"]
             title == strip(lower(article["title"]))
         IN  IF url # "" /\ url \in st.seen_urls
             THEN [st EXCEPT !.duplicates = @ + 1]
             ELSE IF /\ title # <<>>
                     /\ \E k \in 1..Len(st.seen_titles) :
                           AboveThreshold(title_similarity(title, st.seen_titles[k]))
             THEN [st EXCEPT !.duplicates = @ + 1]
             ELSE [st EXCEPT !.seen_urls = IF url # "" THEN @ \cup {url} ELSE @,
                             !.seen_titles = IF title # <<>> THEN Append(@, title) ELSE @,
                             !.unique_articles = Append(@, article)]

\* a plausible slip: the continue after a fuzzy match is missing
LoopBodyNoContinue(st, article) ==
    LET url   == DictGet(article, "link", "")
        title == strip(lower(DictGet(article, "title", <<>>)))
        fuzzy == /\ title # <<>>
                 /\ \E k \in 1..Len(st.seen_titles) :
                       AboveThreshold(title_similarity(title, st.seen_titles[k]))
    IN  IF url # "" /\ url \in st.seen_urls
        THEN [st EXCEPT !.duplicates = @ + 1]
        ELSE [st EXCEPT !.duplicates = IF fuzzy THEN @ + 1 ELSE @,
                        !.seen_urls = IF url # "" THEN @ \cup {url} ELSE @,
                        !.seen_titles = IF title # <<>> THEN Append(@, title) ELSE @,
                        !.unique_articles = Append(@, article)]

\* a plausible slip: seen_urls is never filled
LoopBodyNoUrlAdd(st, article) ==
    LET url   == DictGet(article, "link", "")
        title == strip(lower(DictGet(article, "title", <<>>)))
    IN  IF url # "" /\ url \in st.seen_urls
        THEN [st EXCEPT !.duplicates = @ + 1]
        ELSE IF /\ title # <<>>
                /\ \E k \in 1..Len(st.seen_titles) :
                      AboveThreshold(title_similarity(title, st.seen_titles[k]))
        THEN [st EXCEPT !.duplicates = @ + 1]
        ELSE [st EXCEPT !.seen_titles = IF title # <<>> THEN Append(@, title) ELSE @,
                        !.unique_articles = Append(@, article)]

\* a plausible slip: only the most recent kept title is compared
LoopBodyLastTitle(st, article) ==
    LET url   == DictGet(article, "link", "")
        title == strip(lower(DictGet(article, "title", <<>>)))
    IN  IF url # "" /\ url \in st.seen_urls
        THEN [st EXCEPT !.duplicates = @ + 1]
        ELSE IF /\ title # <<>>
                /\ st.seen_titles # <<>>
                /\ AboveThreshold(title_similarity(title,
                                     st.seen_titles[Len(st.seen_titles)]))
        THEN [st EXCEPT !.duplicates = @ + 1]
        ELSE [st EXCEPT !.seen_urls = IF url # "" THEN @ \cup {url} ELSE @,
                        !.seen_titles = IF title # <<>> THEN Append(@, title) ELSE @,
                        !.unique_articles = Append(@, article)]

\* a plausible slip: the title test also runs, and counts, for an article
\* whose link was already seen
LoopBodyCountsBoth(st, article) ==
    LET url   == DictGet(article, "link", "")
        title == strip(lower(DictGet(article, "title", <<>>)))
        fuzzy == /\ title # <<>>
                 /\ \E k \in 1..Len(st.seen_titles) :
                       AboveThreshold(title_similarity(title, st.seen_titles[k]))
    IN  IF url # "" /\ url \in st.seen_urls
        THEN [st EXCEPT !.duplicates = @ + (IF fuzzy THEN 2 ELSE 1)]
        ELSE IF fuzzy
        THEN [st EXCEPT !.duplicates = @ + 1]
        ELSE [st EXCEPT !.seen_urls = IF url # "" THEN @ \cup {url} ELSE @,
                        !.seen_titles = IF title # <<>> THEN Append(@, title) ELSE @,
                        !.unique_articles = Append(@, article)]

\* the body of `for article in articles:` (lines 380-406)
LoopBody(st, article) ==
    LET url   == DictGet(article, "link", "")
        title == strip(lower(DictGet(article, "title", <<>>)))
    IN  IF url # "" /\ url \in st.seen_urls
        THEN [st EXCEPT !.duplicates = @ + 1]
        ELSE IF /\ title # <<>>
                /\ \E k \in 1..Len(st.seen_titles) :
                      AboveThreshold(title_similarity(title, st.seen_titles[k]))
        THEN [st EXCEPT !.duplicates = @ + 1]
        ELSE [st EXCEPT !.seen_urls = IF url # "" THEN @ \cup {url} ELSE @,
                        !.seen_titles = IF title # <<>> THEN Append(@, title) ELSE @,
                        !.unique_articles = Append(@, article)]

DedupState ==
    [seen_urls |-> seen_urls, seen_titles |-> seen_titles,
     unique_articles |-> unique_articles, duplicates |-> duplicates,
     raised |-> raised]

\* the state deduplicate_articles starts from (lines 371-374)
DedupStart(input, r) ==
    /\ articles' = input
    /\ pos' = 1
    /\ seen_urls' = {}
    /\ seen_titles' = <<>>
    /\ unique_articles' = <<>>
    /\ duplicates' = 0
    /\ kept' = <<>>
    /\ run' = r
    /\ dpc' = "loop"

DedupInit ==
    /\ articles \in UNION {[1..n -> DedupArticles] : n \in 0..MaxDedupLen}
    /\ pos = 1
    /\ seen_urls = {}
    /\ seen_titles = <<>>
    /\ unique_articles = <<>>
    /\ duplicates = 0
    /\ kept = <<>>
    /\ run = 1
    /\ first = [unique_articles |-> <<>>, duplicates |-> 0]
    /\ dpc = "loop"
    /\ raised = "none"
    /\ TrendIdle
    /\ HistIdle
    /\ FeedIdle

\* one pass of the for-loop
DedupIterate ==
    /\ dpc = "loop"
    /\ raised = "none"
    /\ pos <= Len(articles)
    /\ LET st == LoopBody(DedupState, articles[pos])
       IN  /\ seen_urls' = st.seen_urls
           /\ seen_titles' = st.seen_titles
           /\ unique_articles' = st.unique_articles
           /\ duplicates' = st.duplicates
           /\ raised' = st.raised
           /\ kept' = IF Len(st.unique_articles) > Len(unique_articles)
                      THEN Append(kept, pos) ELSE kept
    /\ pos' = pos + 1
    /\ UNCHANGED <<articles, run, first, dpc, trendVars, histVars, feedVars>>

\* return unique_articles, duplicates
DedupReturn ==
    /\ dpc = "loop"
    /\ raised = "none"
    /\ pos > Len(articles)
    /\ dpc' = "returned"
    /\ UNCHANGED <<articles, pos, seen_urls, seen_titles, unique_articles,
                   duplicates, kept, run, first, raised, trendVars, histVars, feedVars>>

\* the caller passes the returned list to deduplicate_articles again
DedupAgain ==
    /\ dpc = "returned"
    /\ run = 1
    /\ first' = [unique_articles |-> unique_articles, duplicates |-> duplicates]
    /\ DedupStart(unique_articles, 2)
    /\ UNCHANGED <<raised, trendVars, histVars, feedVars>>

DedupNext == DedupIterate \/ DedupReturn \/ DedupAgain

SpecDedup == DedupInit /\ [][DedupNext]_vars

(***************************************************************************)
(* Properties of deduplicate_articles                                      *)
(***************************************************************************)
Link(i)   == DictGet(articles[i], "link", "")
Title(i)  == NormTitle(articles[i])
IsKept(i) == \E k \in 1..Len(kept) : kept[k] = i
SameLink(i, j) == Link(i) # "" /\ Link(i) = Link(j)
\* the title of article i, non-empty, has ratio > 0.85 against that of j
SimilarTitle(i, j) ==
    Title(i) # <<>> /\ AboveThreshold(title_similarity(Title(i), Title(j)))

\* C5: running deduplicate_articles on its own output returns the same
\* articles in the same order and counts no duplicate.
C5_DedupIdempotent ==
    (run = 2 /\ dpc = "returned") =>
        /\ unique_articles = first.unique_articles
        /\ duplicates = 0

\* the first call dropped something, and kept two titles that are both
\* similar to a dropped one but not to each other
C5_Witness ==
    /\ run = 2 /\ dpc = "returned"
    /\ first.duplicates > 0
    /\ \E i, j \in 1..Len(unique_articles) :
          /\ i < j
          /\ NormTitle(unique_articles[i]) = strip(lower(TitleTalks))
          /\ NormTitle(unique_articles[j]) = strip(lower(TitleTalksAid))

\* C6 as stated: an article whose non-empty link equals the link of any
\* earlier article, kept or not, is dropped.
C6_DropsLinkOfAnyEarlier ==
    dpc = "returned" =>
        \A i \in 1..Len(articles) :
            (\E j \in 1..(i - 1) : SameLink(i, j)) => ~IsKept(i)

\* C6 amended: an article whose non-empty link equals the link of an
\* earlier article that was kept is dropped.
C6_DropsLinkOfEarlierKept ==
    dpc = "returned" =>
        \A i \in 1..Len(articles) :
            (\E j \in 1..(i - 1) : IsKept(j) /\ SameLink(i, j)) => ~IsKept(i)

\* an article was dropped for its link alone: its title is empty
C6_Witness ==
    /\ dpc = "returned"
    /\ \E i \in 1..Len(articles) : \E j \in 1..(i - 1) :
          IsKept(j) /\ SameLink(i, j) /\ Title(i) = <<>> /\ ~IsKept(i)

\* C7 as stated: an article whose normalised non-empty title has ratio
\* > 0.85 against the title of any earlier article, kept or not, is dropped.
C7_DropsTitleOfAnyEarlier ==
    dpc = "returned" =>
        \A i \in 1..Len(articles) :
            (\E j \in 1..(i - 1) : SimilarTitle(i, j)) => ~IsKept(i)

\* C7 amended: an article whose normalised non-empty title has ratio
\* > 0.85 against the title of an earlier article that was kept is dropped.
C7_DropsTitleOfEarlierKept ==
    dpc = "returned" =>
        \A i \in 1..Len(articles) :
            (\E j \in 1..(i - 1) : IsKept(j) /\ SimilarTitle(i, j)) => ~IsKept(i)

\* an article with a fresh link was dropped for its title, which is
\* similar but not equal to a kept one
C7_Witness ==
    /\ dpc = "returned"
    /\ \E i \in 1..Len(articles) : \E j \in 1..(i - 1) :
          /\ IsKept(j) /\ SimilarTitle(i, j) /\ Title(i) # Title(j)
          /\ \A m \in 1..(i - 1) : ~SameLink(i, m)
          /\ ~IsKept(i)

\* C8: the result is an order-preserving subsequence of the input, every
\* dropped article follows a kept one with the same non-empty link or a
\* similar title, and the first article is kept.
C8_FirstSeenWins ==
    dpc = "returned" =>
        /\ \A k \in 1..Len(kept) : kept[k] \in 1..Len(articles)
        /\ \A k \in 1..(Len(kept) - 1) : kept[k] < kept[k + 1]
        /\ unique_articles = [k \in 1..Len(kept) |-> articles[kept[k]]]
        /\ \A i \in 1..Len(articles) :
              ~IsKept(i) =>
                  \E j \in 1..(i - 1) :
                      IsKept(j) /\ (SameLink(i, j) \/ SimilarTitle(i, j))
        /\ Len(articles) >= 1 => IsKept(1)

\* an article was dropped between two kept ones
C8_Witness ==
    /\ dpc = "returned"
    /\ \E i, j, m \in 1..Len(articles) :
          i < j /\ j < m /\ IsKept(i) /\ ~IsKept(j) /\ IsKept(m)

IsBlank(a) == DictGet(a, "link", "") = "" /\ DictGet(a, "title", <<>>) = <<>>
AtArticle == dpc = "loop" /\ raised = "none" /\ pos <= Len(articles)

\* C9: an article with no link and no title is kept, is not counted and
\* leaves seen_urls and seen_titles alone; an article with no link and a
\* title similar to a kept one is dropped; no iteration raises.
C9_BlankArticles ==
    [][ /\ (AtArticle /\ IsBlank(articles[pos])) =>
              /\ unique_articles' = Append(unique_articles, articles[pos])
              /\ duplicates' = duplicates
              /\ seen_urls' = seen_urls
              /\ seen_titles' = seen_titles
        /\ (/\ AtArticle
            /\ Link(pos) = ""
            /\ \E j \in 1..(pos - 1) : IsKept(j) /\ SimilarTitle(pos, j)) =>
              /\ unique_articles' = unique_articles
              /\ duplicates' = duplicates + 1
        /\ raised' = "none" ]_vars

\* an article without 'link' and 'title' keys was kept, and after it an
\* article with an empty link was dropped for its title
C9_Witness ==
    /\ dpc = "returned"
    /\ \E i, j, m \in 1..Len(articles) :
          /\ i < j /\ j < m
          /\ DOMAIN articles[i] = {"source"} /\ IsKept(i)
          /\ IsKept(j) /\ Link(m) = "" /\ SimilarTitle(m, j) /\ ~IsKept(m)

\* C30: deduplicate_articles returns (unique, duplicates) with
\* len(unique) + duplicates == len(input); at every point of the loop each
\* article visited so far was either kept exactly once or counted as a
\* duplicate exactly once, also when it matches an earlier article both by
\* link and by title.
C30_EveryArticleAccounted ==
    dpc \in {"loop", "returned"} =>
        /\ Len(unique_articles) + duplicates = pos - 1
        /\ dpc = "returned" => Len(unique_articles) + duplicates = Len(articles)
        /\ Len(kept) = Len(unique_articles)
        /\ \A k \in 1..Len(kept) : unique_articles[k] = articles[kept[k]]
        /\ \A k \in 1..(Len(kept) - 1) : kept[k] < kept[k + 1]
        /\ duplicates = Cardinality({i \in 1..(pos - 1) : ~IsKept(i)})

\* the call returned and dropped, once, an article that repeats both the
\* link and the title of a kept one
C30_Witness ==
    /\ dpc = "returned"
    /\ run = 1
    /\ duplicates = 1
    /\ \E i, j \in 1..Len(articles) :
          /\ i < j
          /\ IsKept(i) /\ ~IsKept(j)
          /\ Link(i) # "" /\ Link(i) = Link(j)
          /\ Title(i) # <<>> /\ Title(i) = Title(j)

(***************************************************************************)
(* fetch_feed (monitor_russian_media.py).  A link is an atomic string      *)
(* without surrounding blanks, so link.strip() leaves it alone; the        *)
(* 'published' and sentiment fields of an article are not modelled.        *)
(***************************************************************************)
FetchMaxArticles == 50
SummaryChars == 1000

\* if not entry.get('title') or not entry.get('link'): continue
ValidEntry(entry) ==
    DictGet(entry, "title", <<>>) # <<>> /\ DictGet(entry, "link", "") # ""

\* the dict appended for a valid entry
ArticleOf(source_name, entry) ==
    [source |-> source_name,
     title |-> strip(entry.title),
     link |-> entry.link,
     summary |-> LET text == DictGet(entry, "summary", <<>>)
                 IN  SubSeq(text, 1, Min({Len(text), SummaryChars}))]

\* the list `articles` after the loop over feed.entries[:max_articles]
BuildArticles(source_name, entries, max_articles) ==
    LET head == SubSeq(entries, 1, Min({Len(entries), max_articles}))
        valid == SelectSeq(head, ValidEntry)
    IN  [k \in 1..Len(valid) |-> ArticleOf(source_name, valid[k])]

\* the body of the try block for one answer of feedparser.parse
AttemptResult(source_name, feed, max_articles) ==
    IF feed.kind = "raise" THEN Raise("Exception: parse")
    ELSE IF feed.bozo THEN Raise("Exception: Feed parsing error")
    ELSE IF /\ BuildArticles(source_name, feed.entries, max_articles) = <<>>
            /\ feed.entries = <<>>
    THEN Raise("Exception: No articles found in feed")
    ELSE Ok(BuildArticles(source_name, feed.entries, max_articles))

\* a plausible slip: the last failure is re-raised
HandleFailureReraise(k, n) == IF k < n THEN "sleep" ELSE "raise"

\* the except clause: sleep and go on, or give up with an empty list
HandleFailure(k, n) == IF k < n THEN "sleep" ELSE "return"

TitleTalksPadded == <<" ">> \o TitleTalks \o <<" ">>

FetchEntries ==
    <<[title |-> TitleTalksPadded, link |-> "https://tass.com/1", summary |-> TextTariffs],
      [title |-> <<>>, link |-> "https://tass.com/2"],
      [title |-> TitleTalksAid, link |-> ""],
      [title |-> TitleTalksOn, link |-> "https://ria.ru/2"]>>

\* what feedparser.parse can answer
FetchFeeds ==
    {[kind |-> "raise"],
     [kind |-> "feed", bozo |-> TRUE, entries |-> FetchEntries],
     [kind |-> "feed", bozo |-> FALSE, entries |-> <<>>],
     [kind |-> "feed", bozo |-> FALSE, entries |-> SubSeq(FetchEntries, 2, 3)],
     [kind |-> "feed", bozo |-> FALSE, entries |-> FetchEntries]}

RetriesArgs == (0 - 1)..MaxRetries

FetchInit ==
    /\ retries \in RetriesArgs
    /\ attempt = 0
    /\ fpc = "try"
    /\ parses = <<>>
    /\ waits = <<>>
    /\ fetch_result = <<>>
    /\ parallel = FALSE /\ mpc = "idle" /\ task = <<>> /\ fetched = <<>>
    /\ collected = <<>> /\ dup_count = 0 /\ identify_calls = <<>>
    /\ raised = "none"
    /\ DedupIdle
    /\ TrendIdle
    /\ HistIdle

\* one pass of `for attempt in range(retries + 1)` up to the return, the
\* call of time.sleep or the exception leaving fetch_feed
FetchAttempt ==
    /\ fpc = "try"
    /\ attempt <= retries
    /\ \E feed \in FetchFeeds :
          LET outcome == AttemptResult("TASS", feed, FetchMaxArticles)
              failed == outcome.raised # "none"
              handler == HandleFailure(attempt, retries)
          IN  /\ parses' = Append(parses, [failed |-> failed, e |-> outcome.raised,
                                           articles |-> outcome.value])
              /\ fetch_result' = IF failed THEN fetch_result ELSE outcome.value
              /\ fpc' = IF ~failed THEN "returned"
                        ELSE IF handler = "sleep" THEN "sleep"
                        ELSE IF handler = "return" THEN "returned"
                        ELSE "raised"
              /\ raised' = IF failed /\ handler = "raise" THEN outcome.raised ELSE raised
    /\ UNCHANGED <<retries, attempt, waits, mainVars, dedupVars, trendVars, histVars>>

\* time.sleep(2 ** attempt) returns and the loop goes on
FetchSleep ==
    /\ fpc = "sleep"
    /\ waits' = Append(waits, Pow2(attempt))
    /\ attempt' = attempt + 1
    /\ fpc' = "try"
    /\ UNCHANGED <<retries, parses, fetch_result, raised, mainVars, dedupVars,
                   trendVars, histVars>>

\* range(retries + 1) is exhausted: the `return []` after the loop
FetchFallThrough ==
    /\ fpc = "try"
    /\ attempt > retries
    /\ fetch_result' = <<>>
    /\ fpc' = "returned"
    /\ UNCHANGED <<retries, attempt, parses, waits, raised, mainVars, dedupVars,
                   trendVars, histVars>>

FetchNext == FetchAttempt \/ FetchSleep \/ FetchFallThrough

SpecFetch == FetchInit /\ [][FetchNext]_vars

\* C25: fetch_feed parses at most retries + 1 times; it sleeps 2^k seconds
\* after failed attempt k (0-based, k < retries) and before attempt k + 1;
\* it returns the articles of the first successful attempt without a
\* further attempt, returns the empty list when the last attempt failed,
\* and no exception leaves it.
C25_RetryBackoff ==
    /\ Len(parses) <= Max({0, retries + 1})
    /\ fpc # "raised"
    /\ waits = [k \in 1..Len(waits) |-> Pow2(k - 1)]
    /\ Len(waits) = attempt /\ attempt <= Max({0, retries})
    /\ fpc = "try" => Len(parses) = attempt
    /\ fpc = "sleep" => Len(parses) = attempt + 1 /\ parses[Len(parses)].failed
    /\ \A k \in 1..(Len(parses) - 1) : parses[k].failed
    /\ fpc = "returned" =>
          /\ Len(parses) = IF retries < 0 THEN 0 ELSE attempt + 1
          /\ IF parses # <<>> /\ ~parses[Len(parses)].failed
             THEN fetch_result = parses[Len(parses)].articles
             ELSE fetch_result = <<>> /\ Len(parses) = Max({0, retries + 1})

\* fetch_feed returned articles on its last permitted attempt, after
\* sleeping 1, 2 and 4 seconds
C25_Witness ==
    /\ fpc = "returned"
    /\ retries = 3
    /\ waits = <<1, 2, 4>>
    /\ Len(fetch_result) = 2

(***************************************************************************)
(* main() of monitor_russian_media.py, up to the call of                   *)
(* identify_trending_stories.  A call of fetch_feed is one step of the     *)
(* thread that runs it: it returns the articles of the feed or, when every *)
(* attempt failed, the empty list.                                         *)
(***************************************************************************)
MinArticles == 50
MaxWorkers == 8

\* the first feeds of RSS_SOURCES, in dict order
MainFeeds == <<"TASS", "RIA Novosti", "Interfax">>

LinkTable ==
    <<"https://news.example/1", "https://news.example/2", "https://news.example/3",
      "https://news.example/4", "https://news.example/5", "https://news.example/6",
      "https://news.example/7", "https://news.example/8", "https://news.example/9",
      "https://news.example/10", "https://news.example/11", "https://news.example/12",
      "https://news.example/13", "https://news.example/14", "https://news.example/15",
      "https://news.example/16", "https://news.example/17", "https://news.example/18",
      "https://news.example/19", "https://news.example/20", "https://news.example/21",
      "https://news.example/22", "https://news.example/23", "https://news.example/24",
      "https://news.example/25", "https://news.example/26", "https://news.example/27",
      "https://news.example/28", "https://news.example/29", "https://news.example/30",
      "https://news.example/31", "https://news.example/32", "https://news.example/33",
      "https://news.example/34", "https://news.example/35", "https://news.example/36",
      "https://news.example/37", "https://news.example/38", "https://news.example/39",
      "https://news.example/40", "https://news.example/41", "https://news.example/42",
      "https://news.example/43", "https://news.example/44", "https://news.example/45",
      "https://news.example/46", "https://news.example/47", "https://news.example/48",
      "https://news.example/49", "https://news.example/50", "https://news.example/51",
      "https://news.example/52", "https://news.example/53", "https://news.example/54",
      "https://news.example/55", "https://news.example/56", "https://news.example/57",
      "https://news.example/58", "https://news.example/59", "https://news.example/60",
      "https://news.example/61", "https://news.example/62", "https://news.example/63",
      "https://news.example/64", "https://news.example/65", "https://news.example/66",
      "https://news.example/67", "https://news.example/68", "https://news.example/69",
      "https://news.example/70", "https://news.example/71", "https://news.example/72",
      "https://news.example/73", "https://news.example/74", "https://news.example/75",
      "https://news.example/76", "https://news.example/77", "https://news.example/78",
      "https://news.example/79", "https://news.example/80", "https://news.example/81",
      "https://news.example/82", "https://news.example/83", "https://news.example/84",
      "https://news.example/85", "https://news.example/86", "https://news.example/87",
      "https://news.example/88", "https://news.example/89", "https://news.example/90">>

\* entry n of the feeds: a two-letter title unlike every other, its own link
EntryOf(n) ==
    [title |-> <<LowerCase[((n - 1) \div 26) + 1], LowerCase[((n - 1) % 26) + 1]>>,
     link |-> LinkTable[n],
     summary |-> <<>>]

\* the entries feed f carries; the last feed repeats the first link of the
\* first feed under a title of its own
FeedBatch(f) ==
    [i \in 1..FeedSize |->
        IF f = Len(MainFeeds) /\ i = 1
        THEN [EntryOf((f - 1) * FeedSize + 1) EXCEPT !.link = LinkTable[1]]
        ELSE EntryOf((f - 1) * FeedSize + i)]

\* what fetch_feed(url, source_name, 50) can return for feed f
FetchReturns(f) ==
    {<<>>, BuildArticles(MainFeeds[f], FeedBatch(f), FetchMaxArticles)}

\* a plausible slip: the loop over as_completed stops at the first result
\* and the pool is not waited for
SomeYielded == \E f \in 1..Len(MainFeeds) : task[f] = "yielded"

\* as_completed has yielded every future, so the for-loop and the
\* with-block of the executor are left
AllYielded == \A f \in 1..Len(MainFeeds) : task[f] = "yielded"

MainInit ==
    /\ parallel \in BOOLEAN
    /\ mpc = "fetch"
    /\ task = [f \in 1..Len(MainFeeds) |-> "new"]
    /\ fetched = [f \in 1..Len(MainFeeds) |-> <<>>]
    /\ collected = <<>>
    /\ dup_count = 0
    /\ identify_calls = <<>>
    /\ all_articles = <<>>
    /\ TFIDF_AVAILABLE \in BOOLEAN
    /\ call = NoCall /\ returned = <<>> /\ tpc = "idle"
    /\ retries = 0 /\ attempt = 0 /\ fpc = "idle" /\ parses = <<>>
    /\ waits = <<>> /\ fetch_result = <<>>
    /\ raised = "none"
    /\ DedupIdle
    /\ HistIdle

\* the dict comprehension of executor.submit calls (lines 433-436)
MainSubmit ==
    /\ mpc = "fetch" /\ parallel
    /\ task' = [f \in 1..Len(MainFeeds) |-> "queued"]
    /\ mpc' = "collect"
    /\ UNCHANGED <<parallel, fetched, collected, dup_count, identify_calls,
                   fetchVars, raised, dedupVars, trendVars, histVars>>

\* a free thread of the pool takes a queued call
WorkerStart ==
    /\ \E f \in 1..Len(MainFeeds) :
          /\ task[f] = "queued"
          /\ Cardinality({g \in 1..Len(MainFeeds) : task[g] = "running"}) < MaxWorkers
          /\ task' = [task EXCEPT ![f] = "running"]
    /\ UNCHANGED <<parallel, mpc, fetched, collected, dup_count, identify_calls,
                   fetchVars, raised, dedupVars, trendVars, histVars>>

\* fetch_feed returns in its thread and the future is done
WorkerFinish ==
    /\ \E f \in 1..Len(MainFeeds) :
          /\ task[f] = "running"
          /\ \E result \in FetchReturns(f) :
                /\ fetched' = [fetched EXCEPT ![f] = result]
                /\ task' = [task EXCEPT ![f] = "finished"]
    /\ UNCHANGED <<parallel, mpc, collected, dup_count, identify_calls,
                   fetchVars, raised, dedupVars, trendVars, histVars>>

\* one pass of `for future in as_completed(...)` (lines 438-445)
MainCollect ==
    /\ mpc = "collect"
    /\ \E f \in 1..Len(MainFeeds) :
          /\ task[f] = "finished"
          /\ all_articles' = all_articles \o fetched[f]
          /\ collected' = Append(collected, f)
          /\ task' = [task EXCEPT ![f] = "yielded"]
    /\ UNCHANGED <<parallel, mpc, fetched, dup_count, identify_calls,
                   TFIDF_AVAILABLE, call, returned, tpc,
                   fetchVars, raised, dedupVars, histVars>>

\* one pass of the sequential loop (lines 448-452)
MainFetchNext ==
    /\ mpc = "fetch" /\ ~parallel
    /\ Len(collected) < Len(MainFeeds)
    /\ LET f == Len(collected) + 1
       IN  \E result \in FetchReturns(f) :
              /\ fetched' = [fetched EXCEPT ![f] = result]
              /\ all_articles' = all_articles \o result
              /\ collected' = Append(collected, f)
              /\ task' = [task EXCEPT ![f] = "yielded"]
    /\ UNCHANGED <<parallel, mpc, dup_count, identify_calls,
                   TFIDF_AVAILABLE, call, returned, tpc,
                   fetchVars, raised, dedupVars, histVars>>

\* the fetching loop is over and deduplicate_articles(all_articles) is
\* called (line 458); its for-loop runs as DedupIterate, DedupReturn
MainDedup ==
    /\ mpc \in {"fetch", "collect"}
    /\ mpc = "fetch" => ~parallel
    /\ AllYielded
    /\ DedupStart(all_articles, 1)
    /\ mpc' = "dedup"
    /\ UNCHANGED <<first, parallel, task, fetched, collected, dup_count,
                   identify_calls, fetchVars, raised, trendVars, histVars>>

\* all_articles, dup_count = the returned pair, then the MIN_ARTICLES
\* test (lines 458-468)
MainCheck ==
    /\ mpc = "dedup"
    /\ dpc = "returned"
    /\ all_articles' = unique_articles
    /\ dup_count' = duplicates
    /\ mpc' = IF Len(unique_articles) < MinArticles
              THEN "exit"                  \* sys.exit(1)
              ELSE "identify"
    /\ UNCHANGED <<parallel, task, fetched, collected, identify_calls,
                   TFIDF_AVAILABLE, call, returned, tpc,
                   fetchVars, raised, dedupVars, histVars>>

\* trending = identify_trending_stories(all_articles) has returned or raised
MainFinish(outcome) ==
    /\ returned' = outcome.value
    /\ raised' = outcome.raised
    /\ mpc' = IF outcome.raised = "none" THEN "identified" ELSE "raised"
    /\ identify_calls' = Append(identify_calls, all_articles)
    /\ UNCHANGED <<parallel, task, fetched, collected, dup_count,
                   all_articles, TFIDF_AVAILABLE, call, tpc,
                   fetchVars, dedupVars, histVars>>

\* line 471, the call taking the TF-IDF branch
MainIdentifyTfidf ==
    /\ mpc = "identify"
    /\ TFIDF_AVAILABLE
    /\ MainFinish(IdentifyTfidf(all_articles))

\* line 471, the call taking the fallback branch
MainIdentifyFallback ==
    /\ mpc = "identify"
    /\ ~TFIDF_AVAILABLE
    /\ \E trendingKeys \in FallbackOrders(all_articles) :
          MainFinish(IdentifyFallback(all_articles, trendingKeys,
                                      FallbackTopics(all_articles)))

MainNext ==
    \/ MainSubmit \/ WorkerStart \/ WorkerFinish \/ MainCollect
    \/ MainFetchNext \/ MainDedup \/ DedupIterate \/ DedupReturn
    \/ MainCheck \/ MainIdentifyTfidf \/ MainIdentifyFallback

SpecMain == MainInit /\ [][MainNext]_vars

\* everything the feeds returned, in the order main() collected it
CollectedArticles ==
    Flatten([j \in 1..Len(collected) |-> fetched[collected[j]]])

\* C24: in either mode main() starts deduplication only after every feed's
\* fetch has finished and its result has been added to the collection, and
\* it calls identify_trending_stories at most once, on the deduplicated
\* collection of all feeds, never on a part of it.
C24_MainSynchronised ==
    /\ mpc \in {"dedup", "identify", "identified", "raised", "exit"} =>
          /\ \A f \in 1..Len(MainFeeds) : task[f] = "yielded"
          /\ Len(collected) = Len(MainFeeds)
          /\ Range(collected) = 1..Len(MainFeeds)
          /\ articles = CollectedArticles
    /\ Len(identify_calls) <= 1
    /\ identify_calls # <<>> <=> mpc \in {"identified", "raised"}
    /\ \A k \in 1..Len(identify_calls) :
          /\ dpc = "returned"
          /\ pos = Len(CollectedArticles) + 1
          /\ identify_calls[k] = unique_articles
          /\ unique_articles = [i \in 1..Len(kept) |-> articles[kept[i]]]
          /\ Len(identify_calls[k]) >= MinArticles

C24_Witness ==
    /\ parallel
    /\ mpc = "identified"
    /\ Len(identify_calls) = 1
    /\ collected[1] # 1
    /\ \A f \in 1..Len(MainFeeds) : fetched[f] # <<>>
    /\ dup_count = 1
    /\ Len(identify_calls[1]) = Len(CollectedArticles) - 1

====
